---- MODULE Spec2Model ----
(***************************************************************************)
(* git-bug: the operation model and snapshot compilation (package bug),    *)
(* and the excerpt cache (package cache).                                  *)
(*                                                                         *)
(* These state machines share the module:                                    *)
(*   SpecSnapshot  the fold of a bug's operations into its Snapshot        *)
(*   SpecCreate    CreateWithFiles and CreateOperation.Validate            *)
(*   Spec          RepoCache / BugCache over a store and a cache file      *)
(*   SpecQuery     the lookups and queries of an opened RepoCache          *)
(*   SpecLock      two processes taking and releasing the lock file        *)
(*   SpecIdentity  an Identity, its versions and its commits               *)
(*   SpecIdentityView  the read-only methods of an Identity                *)
(*   SpecMerge     Fetch and MergeAll beside the owner of the cache        *)
(*   SpecJson      an operation written to JSON and read back              *)
(*   SpecRaw       the *Raw mutators of a BugCache, with metadata          *)
(*   SpecReplicas  two replicas merging each other's head of one bug       *)
(* Each one leaves the variables of the others at their idle values.       *)
(***************************************************************************)
EXTENDS Integers, Sequences, FiniteSets, TLC

VARIABLES
    \* --- snapshot compiler ---
    ops,        \* the operations applied so far, in order
    snapshot,   \* the Snapshot they fold into
    panicked,   \* an Apply ran into a Go runtime panic
    \* --- CreateWithFiles ---
    cIn,        \* the arguments: [title, message]
    cOut,       \* the returned (bug, error), or NotCalled
    \* --- repo cache ---
    repo,       \* the store: bug id -> the committed operations of its ref
    cacheFile,  \* the cache file on disk
    lockFile,   \* the lock file on disk
    opened,     \* this process holds a RepoCache
    excerpts,   \* RepoCache.excerpts
    bugs,       \* RepoCache.bugs: id -> the BugCache loaded in memory
    last,       \* what the last call did and returned
    \* --- lock file, step by step ---
    lockData,   \* the bytes of the lock file, or NoLockFile
    proc,       \* per process: where it is in NewRepoCache / Close
    \* --- identity ---
    ident,      \* the Identity in memory: its id and its versions
    idStore,    \* the store: the commits written, in order, and the refs
    \* --- merge ---
    remote,     \* the remote-tracking refs: bug id -> the packs of the ref
    merge,      \* the background task of MergeAll and what it has merged
    \* --- JSON form of an operation ---
    jIn,        \* the operation handed to json.Marshal
    jOut,       \* what json.Unmarshal made of the bytes, or NotCalled
    \* --- two replicas ---
    replicas    \* per replica: the operations of its copy of one bug

snapVars   == <<ops, snapshot, panicked>>
createVars == <<cIn, cOut>>
cacheVars  == <<repo, cacheFile, lockFile, opened, excerpts, bugs, last>>
lockVars   == <<lockData, proc>>
idVars     == <<ident, idStore>>
mergeVars  == <<remote, merge>>
jsonVars   == <<jIn, jOut>>
replicaVars == <<replicas>>
vars       == <<ops, snapshot, panicked, cIn, cOut,
                repo, cacheFile, lockFile, opened, excerpts, bugs, last,
                lockData, proc, ident, idStore, remote, merge,
                jIn, jOut, replicas>>

(***************************************************************************)
(* Bounds                                                                  *)
(***************************************************************************)
MaxText == 2        \* longest title / message of SpecCreate
MaxOps  == 4        \* operations folded by SpecSnapshot
MaxBugOps == 3      \* operations of one bug in Spec
MaxBugs == 2        \* bugs in the store in Spec
MaxTotalOps == 3    \* operations of all bugs together in Spec

(***************************************************************************)
(* Strings: sequences over a few character classes.                        *)
(*   "a", "b"  printable graphic characters                                *)
(*   "sp"      a space, "nl" a newline, "ctl" a control character          *)
(***************************************************************************)
Chars == {"a", "b", "sp", "nl", "ctl"}

Texts(n) == UNION {[1..k -> Chars] : k \in 0..n}

\* text.Empty: nothing is left once spaces and non-graphic characters go.
TextEmpty(s) == \A i \in 1..Len(s) : s[i] \in {"sp", "nl", "ctl"}

\* text.Safe: no control character other than \n, \t, \r.
TextSafe(s) == \A i \in 1..Len(s) : s[i] # "ctl"

\* strings.Contains(s, "\n")
ContainsNewline(s) == \E i \in 1..Len(s) : s[i] = "nl"

(***************************************************************************)
(* Operations.  Every variant shares the header (type, author, unix time,  *)
(* metadata); the payload fields a variant does not have keep their zero   *)
(* value.                                                                  *)
(***************************************************************************)
NoHash == <<>>                      \* git.Hash("")
InvalidHashes == {<<>>, <<"zz">>}   \* not a well-formed content address
NoMeta == {}                        \* no metadata: a set of <<key, value>>
NoFiles == <<>>

newOpBase(opType, author, unixTime) ==
    [type |-> opType, author |-> author, unixTime |-> unixTime,
     title |-> <<>>, message |-> <<>>, files |-> NoFiles, target |-> NoHash,
     status |-> "none", added |-> {}, removed |-> {}, metadata |-> NoMeta]

NewCreateOp(author, unixTime, title, message, files) ==
    [newOpBase("CREATE", author, unixTime)
        EXCEPT !.title = title, !.message = message, !.files = files]

NewAddCommentOp(author, unixTime, message, files) ==
    [newOpBase("ADD_COMMENT", author, unixTime)
        EXCEPT !.message = message, !.files = files]

NewEditCommentOp(author, unixTime, target, message, files) ==
    [newOpBase("EDIT_COMMENT", author, unixTime)
        EXCEPT !.target = target, !.message = message, !.files = files]

NewSetTitleOp(author, unixTime, title) ==
    [newOpBase("SET_TITLE", author, unixTime) EXCEPT !.title = title]

NewSetStatusOp(author, unixTime, status) ==
    [newOpBase("SET_STATUS", author, unixTime) EXCEPT !.status = status]

NewLabelChangeOp(author, unixTime, added, removed) ==
    [newOpBase("LABEL_CHANGE", author, unixTime)
        EXCEPT !.added = added, !.removed = removed]

\* op.SetMetadata(key, value) for every pair of the map
SetMetadata(op, metadata) == [op EXCEPT !.metadata = @ \cup metadata]

\* hashOperation: the content address of the operation's serialized form, its
\* fields in a fixed order.  Two operations have the same hash exactly when
\* they serialize to the same document.
hashOperation(op) ==
    <<op.type, op.author, op.unixTime, op.title, op.message, op.files,
      op.target, op.status, op.added, op.removed, op.metadata>>

\* git.Hash.IsValid
IsValid(h) == h \notin InvalidHashes

\* A well-formed hash that is the hash of no operation of any bug.
UnknownHash == hashOperation(newOpBase("NONE", "nobody", 0))

(***************************************************************************)
(* Snapshot and timeline                                                   *)
(***************************************************************************)
\* Comment{Message, Author, Files, UnixTime}
Comment(message, author, files, unixTime) ==
    [message |-> message, author |-> author, files |-> files,
     unixTime |-> unixTime]

CommentHistoryStep(comment) ==
    [message |-> comment.message, unixTime |-> comment.unixTime]

\* NewCommentTimelineItem(hash, comment): the history starts with the original.
NewCommentTimelineItem(itemType, hash, comment) ==
    [type |-> itemType, hash |-> hash,
     history |-> <<CommentHistoryStep(comment)>>]

\* A timeline item that holds no comment (set-title, set-status, label-change).
NewPlainTimelineItem(itemType, hash) ==
    [type |-> itemType, hash |-> hash, history |-> <<>>]

\* CommentTimelineItem.Append(comment)
ItemAppend(item, comment) ==
    [item EXCEPT !.history = Append(@, CommentHistoryStep(comment))]

\* Bug.Compile starts from a snapshot with status open and everything else zero.
NewSnapshot ==
    [title |-> <<>>, status |-> "open", comments |-> <<>>, timeline |-> <<>>,
     labels |-> {}, author |-> "none", createdAt |-> 0]

(***************************************************************************)
(* Operation.Apply, one per variant                                        *)
(***************************************************************************)
\* Mutant of CreateOperation.Apply: the title is not set.
CreateApplyNoTitle(snap, op) ==
    LET comment == Comment(op.message, op.author, NoFiles, op.unixTime)
    IN  [snap EXCEPT
            !.comments = <<comment>>,
            !.author = op.author,
            !.createdAt = op.unixTime,
            !.timeline = <<NewCommentTimelineItem("CreateTimelineItem",
                                                  hashOperation(op), comment)>>]

\* CreateOperation.Apply
CreateApply(snap, op) ==
    LET comment == Comment(op.message, op.author, NoFiles, op.unixTime)
    IN  [snap EXCEPT
            !.title = op.title,
            !.comments = <<comment>>,
            !.author = op.author,
            !.createdAt = op.unixTime,
            !.timeline = <<NewCommentTimelineItem("CreateTimelineItem",
                                                  hashOperation(op), comment)>>]

\* AddCommentOperation.Apply
AddCommentApply(snap, op) ==
    LET comment == Comment(op.message, op.author, op.files, op.unixTime)
    IN  [snap EXCEPT
            !.comments = Append(@, comment),
            !.timeline = Append(@, NewCommentTimelineItem("AddCommentTimelineItem",
                                                          hashOperation(op), comment))]

\* SetTitleOperation.Apply
SetTitleApply(snap, op) ==
    [snap EXCEPT
        !.title = op.title,
        !.timeline = Append(@, NewPlainTimelineItem("SetTitleTimelineItem",
                                                    hashOperation(op)))]

\* SetStatusOperation.Apply
SetStatusApply(snap, op) ==
    [snap EXCEPT
        !.status = op.status,
        !.timeline = Append(@, NewPlainTimelineItem("SetStatusTimelineItem",
                                                    hashOperation(op)))]

\* LabelChangeOperation.Apply: added labels already present and removed labels
\* not present change nothing.
LabelChangeApply(snap, op) ==
    [snap EXCEPT
        !.labels = (@ \cup op.added) \ op.removed,
        !.timeline = Append(@, NewPlainTimelineItem("LabelChangeTimelineItem",
                                                    hashOperation(op)))]

\* The loop of EditCommentOperation.Apply stops at the first timeline item
\* whose hash is the target; 0 when it runs through (target == nil).
TargetIndex(timeline, target) ==
    IF \E i \in 1..Len(timeline) : timeline[i].hash = target
    THEN CHOOSE i \in 1..Len(timeline) :
            /\ timeline[i].hash = target
            /\ \A j \in 1..(i - 1) : timeline[j].hash # target
    ELSE 0

\* The dynamic types the type switch of the loop counts.
CountedItemTypes == {"CreateTimelineItem", "CommentTimelineItem"}

\* commentIndex when the loop stops at item i: the counted items before it.
CommentIndex(timeline, i) ==
    Cardinality({j \in 1..(i - 1) : timeline[j].type \in CountedItemTypes})

\* snapshot.Comments[commentIndex] is out of range: a runtime panic.
EditCommentPanics(snap, op) ==
    LET i == TargetIndex(snap.timeline, op.target)
    IN  i # 0 /\ CommentIndex(snap.timeline, i) >= Len(snap.comments)

\* Mutant of EditCommentOperation.Apply: the revision is not appended to the
\* target's history.
EditCommentApplyNoHistory(snap, op) ==
    LET i  == TargetIndex(snap.timeline, op.target)
        ci == CommentIndex(snap.timeline, i)
    IN  IF i = 0
        THEN snap
        ELSE [snap EXCEPT
                !.comments[ci + 1] =
                    [@ EXCEPT !.message = op.message, !.files = op.files]]

\* Mutant of EditCommentOperation.Apply: no return when the target is not found.
EditCommentApplyNoNilCheck(snap, op) ==
    LET i  == TargetIndex(snap.timeline, op.target)
        ci == IF i = 0 THEN CommentIndex(snap.timeline, Len(snap.timeline) + 1)
                       ELSE CommentIndex(snap.timeline, i)
        comment == Comment(op.message, "none", op.files, op.unixTime)
    IN  IF ci + 1 > Len(snap.comments)
        THEN snap
        ELSE [snap EXCEPT
                !.timeline =
                    [n \in 1..Len(@) |->
                        IF n = i /\ @[n].type \in {"CreateTimelineItem",
                                                   "AddCommentTimelineItem"}
                        THEN ItemAppend(@[n], comment)
                        ELSE @[n]],
                !.comments[ci + 1] =
                    [@ EXCEPT !.message = op.message, !.files = op.files]]

\* EditCommentOperation.Apply (when it does not panic)
EditCommentApply(snap, op) ==
    LET i  == TargetIndex(snap.timeline, op.target)
        ci == CommentIndex(snap.timeline, i)
        comment == Comment(op.message, "none", op.files, op.unixTime)
    IN  IF i = 0
        THEN snap
        ELSE [snap EXCEPT
                !.timeline[i] =
                    IF @.type \in {"CreateTimelineItem", "AddCommentTimelineItem"}
                    THEN ItemAppend(@, comment)
                    ELSE @,
                !.comments[ci + 1] =
                    [@ EXCEPT !.message = op.message, !.files = op.files]]

ApplyPanics(snap, op) ==
    op.type = "EDIT_COMMENT" /\ EditCommentPanics(snap, op)

Apply(snap, op) ==
    CASE op.type = "CREATE"       -> CreateApply(snap, op)
      [] op.type = "ADD_COMMENT"  -> AddCommentApply(snap, op)
      [] op.type = "EDIT_COMMENT" -> EditCommentApply(snap, op)
      [] op.type = "SET_TITLE"    -> SetTitleApply(snap, op)
      [] op.type = "SET_STATUS"   -> SetStatusApply(snap, op)
      [] op.type = "LABEL_CHANGE" -> LabelChangeApply(snap, op)

(***************************************************************************)
(* Idle values of the three variable groups                                *)
(***************************************************************************)
NotCalled == [called |-> FALSE]

EmptyMap == <<>>
MapPut(f, k, v) == [x \in DOMAIN f \cup {k} |-> IF x = k THEN v ELSE f[x]]

\* The cache file: missing, undecodable ("corrupt"), or a decodable document
\* with a format version and an excerpt map.
MissingFile == [state |-> "missing", version |-> 0, excerpts |-> EmptyMap]
CorruptFile == [state |-> "corrupt", version |-> 0, excerpts |-> EmptyMap]

\* What a call returned: the call, the bug id it was about or returned, its
\* arguments, the error ("nil" for none) and, for a multiple match, the ids.
Ret(op, id, arg, err, matching) ==
    [op |-> op, id |-> id, arg |-> arg, err |-> err, matching |-> matching]
NoId == <<>>
NoCall == Ret("none", NoId, <<>>, "nil", {})

SnapIdle ==
    ops = <<>> /\ snapshot = NewSnapshot /\ panicked = FALSE
CreateIdle ==
    cIn = [title |-> <<>>, message |-> <<>>] /\ cOut = NotCalled
CacheIdle ==
    /\ repo = EmptyMap /\ cacheFile = MissingFile /\ lockFile = "none"
    /\ opened = FALSE /\ excerpts = EmptyMap /\ bugs = EmptyMap /\ last = NoCall

\* The lock file is a sequence of bytes: the digits 0..9 and "x" for any
\* other byte.  NoLockFile: the path does not exist.
NoLockFile == <<"absent">>
Procs == {"p1", "p2"}

\* A process that has not called NewRepoCache yet.
\*   pc        where the process is
\*   err       the error NewRepoCache returned
\*   seen      the lock file as repoIsAvailable found it
\*   linked    the file the process created is still the one at the path
\*   alone     no other process changed the lock file since seen was read
\*   excerpts  the excerpts of the RepoCache it got (EmptyMap with none)
NewProc ==
    [pc |-> "start", err |-> "nil", seen |-> NoLockFile, linked |-> FALSE,
     alone |-> FALSE, excerpts |-> EmptyMap]

\* An Identity that was not made yet and a store with no commit and no ref.
\* The store keeps the commits in the order they were written, the refs of
\* the identities, the time its commits are stamped with, and the values of
\* the config key of the user identity.
NoIdentity == [id |-> NoHash, versions |-> <<>>]
EmptyStore == [commits |-> <<>>, refs |-> EmptyMap, now |-> 0, configs |-> <<>>]

\* No remote-tracking ref; no MergeAll is running and nothing was merged.
NoResult == [id |-> NoId, status |-> "none", err |-> "nil", ops |-> <<>>]
NoMerge ==
    [pc |-> "idle", todo |-> {}, chan |-> NoResult, pending |-> NoResult,
     writing |-> FALSE, absorbed |-> EmptyMap, done |-> {}, emitted |-> <<>>,
     fetches |-> 0]
MergeIdle == remote = EmptyMap /\ merge = NoMerge

\* Nothing was marshalled; no replica holds a bug.
JsonIdle == jIn = NotCalled /\ jOut = NotCalled
ReplicaIdle == replicas = EmptyMap

LockIdle == lockData = NoLockFile /\ proc = [p \in Procs |-> NewProc]
IdIdle == ident = NoIdentity /\ idStore = EmptyStore

(***************************************************************************)
(* SpecSnapshot: Bug.Compile, one operation at a time                      *)
(***************************************************************************)
Authors == {"A", "B"}
SnapTitles == {<<"a">>, <<"b">>}
SnapMessages == {<<"a">>, <<"b">>}
EditMessages == {<<"a", "b">>}
FileLists == {NoFiles, <<"f1">>}
Labels == {"l1"}

SnapInit == SnapIdle /\ CreateIdle /\ CacheIdle /\ LockIdle /\ IdIdle /\ MergeIdle /\ JsonIdle /\ ReplicaIdle

\* One step of the fold: op.Apply(&snap)
SnapStep(op) ==
    /\ ~panicked
    /\ Len(ops) < MaxOps
    /\ ops' = Append(ops, op)
    /\ IF ApplyPanics(snapshot, op)
       THEN panicked' = TRUE /\ UNCHANGED snapshot
       ELSE snapshot' = Apply(snapshot, op) /\ UNCHANGED panicked
    /\ UNCHANGED <<createVars, cacheVars, lockVars, idVars, mergeVars, jsonVars,
                replicaVars>>

SnapCreate ==
    /\ ops = <<>>
    /\ \E a \in Authors, t \in SnapTitles, m \in SnapMessages, f \in FileLists :
         SnapStep(NewCreateOp(a, 1, t, m, f))

SnapAddComment ==
    /\ ops # <<>>
    /\ \E m \in SnapMessages : SnapStep(NewAddCommentOp("A", 1, m, NoFiles))

\* The target is the hash of any operation applied so far, or of none.
SnapEditComment ==
    /\ ops # <<>>
    /\ \E t \in {hashOperation(ops[i]) : i \in 1..Len(ops)} \cup {UnknownHash},
          m \in EditMessages, f \in FileLists :
         SnapStep(NewEditCommentOp("A", 1, t, m, f))

SnapSetTitle ==
    /\ ops # <<>>
    /\ \E t \in SnapTitles : SnapStep(NewSetTitleOp("A", 1, t))

SnapSetStatus ==
    /\ ops # <<>>
    /\ \E s \in {"open", "closed"} : SnapStep(NewSetStatusOp("A", 1, s))

SnapLabelChange ==
    /\ ops # <<>>
    /\ \E l \in Labels :
         \/ SnapStep(NewLabelChangeOp("A", 1, {l}, {}))
         \/ SnapStep(NewLabelChangeOp("A", 1, {}, {l}))

SnapNext ==
    \/ SnapCreate
    \/ SnapAddComment
    \/ SnapEditComment
    \/ SnapSetTitle
    \/ SnapSetStatus
    \/ SnapLabelChange

SpecSnapshot == SnapInit /\ [][SnapNext]_vars

(***************************************************************************)
(* Validation and the convenience constructors of package bug              *)
(***************************************************************************)
\* opBaseValidate(op, opType): the operation is of the variant it claims.
opBaseValidate(op, opType) ==
    IF op.type # opType THEN "incorrect operation type" ELSE "nil"

\* Mutant of CreateOperation.Validate: the single-line check is missing.
CreateValidateNoNewline(op) ==
    IF opBaseValidate(op, "CREATE") # "nil" THEN opBaseValidate(op, "CREATE")
    ELSE IF TextEmpty(op.title) THEN "title is empty"
    ELSE IF ~TextSafe(op.title) THEN "title is not fully printable"
    ELSE IF ~TextSafe(op.message) THEN "message is not fully printable"
    ELSE "nil"

\* CreateOperation.Validate: the first check that fails, or "nil".
CreateValidate(op) ==
    IF opBaseValidate(op, "CREATE") # "nil" THEN opBaseValidate(op, "CREATE")
    ELSE IF TextEmpty(op.title) THEN "title is empty"
    ELSE IF ContainsNewline(op.title) THEN "title should be a single line"
    ELSE IF ~TextSafe(op.title) THEN "title is not fully printable"
    ELSE IF ~TextSafe(op.message) THEN "message is not fully printable"
    ELSE "nil"

\* Mutant of EditCommentOperation.Validate: the target is not checked.
EditCommentValidateNoTarget(op) ==
    IF opBaseValidate(op, "EDIT_COMMENT") # "nil"
    THEN opBaseValidate(op, "EDIT_COMMENT")
    ELSE IF ~TextSafe(op.message) THEN "message is not fully printable"
    ELSE "nil"

\* EditCommentOperation.Validate
EditCommentValidate(op) ==
    IF opBaseValidate(op, "EDIT_COMMENT") # "nil"
    THEN opBaseValidate(op, "EDIT_COMMENT")
    ELSE IF ~IsValid(op.target) THEN "target hash is invalid"
    ELSE IF ~TextSafe(op.message) THEN "message is not fully printable"
    ELSE "nil"

\* A Bug in memory: its operations, the first `committed` of them stored.
NilBug == [ops |-> <<>>, committed |-> -1]
NewBug == [ops |-> <<>>, committed |-> 0]
BugAppend(b, op) == [b EXCEPT !.ops = Append(@, op)]

\* Mutant of CreateWithFiles: the create is appended twice.
CreateWithFilesTwice(author, unixTime, title, message, files) ==
    LET createOp == NewCreateOp(author, unixTime, title, message, files)
        err == CreateValidate(createOp)
    IN  IF err # "nil"
        THEN [called |-> TRUE, bug |-> NilBug, op |-> createOp, err |-> err]
        ELSE [called |-> TRUE,
              bug |-> BugAppend(BugAppend(NewBug, createOp), createOp),
              op |-> createOp, err |-> "nil"]

\* CreateWithFiles: (bug, createOp, error)
CreateWithFiles(author, unixTime, title, message, files) ==
    LET createOp == NewCreateOp(author, unixTime, title, message, files)
        err == CreateValidate(createOp)
    IN  IF err # "nil"
        THEN [called |-> TRUE, bug |-> NilBug, op |-> createOp, err |-> err]
        ELSE [called |-> TRUE, bug |-> BugAppend(NewBug, createOp),
              op |-> createOp, err |-> "nil"]

(***************************************************************************)
(* SpecCreate: CreateWithFiles on every title and message up to MaxText    *)
(***************************************************************************)
CreateInit ==
    /\ cIn \in [title : Texts(MaxText), message : Texts(MaxText)]
    /\ cOut = NotCalled
    /\ SnapIdle /\ CacheIdle /\ LockIdle /\ IdIdle /\ MergeIdle /\ JsonIdle /\ ReplicaIdle

CreateCall ==
    /\ cOut = NotCalled
    /\ cOut' = CreateWithFiles("A", 1, cIn.title, cIn.message, NoFiles)
    /\ UNCHANGED <<cIn, snapVars, cacheVars, lockVars, idVars, mergeVars, jsonVars,
                replicaVars>>

CreateNext == CreateCall

SpecCreate == CreateInit /\ [][CreateNext]_vars

(***************************************************************************)
(* The store, bugs in memory, excerpts                                     *)
(***************************************************************************)
formatVersion == 1

\* Bug.Compile: the fold of Apply over the operations.
RECURSIVE CompileFrom(_, _, _)
CompileFrom(snap, seq, i) ==
    IF i > Len(seq) THEN snap
    ELSE CompileFrom(Apply(snap, seq[i]), seq, i + 1)

Compile(seq) == CompileFrom(NewSnapshot, seq, 1)

\* Some Apply of the fold panics.
CompilePanics(seq) ==
    \E i \in 1..Len(seq) : ApplyPanics(Compile(SubSeq(seq, 1, i - 1)), seq[i])

\* A WithSnapshot whose snapshot has not been compiled (snap == nil).
NoSnap == [NewSnapshot EXCEPT !.status = "nil"]

\* The JSON document of an operation: the header (type, author, unix time,
\* metadata) and the fields of its variant.
\* (VariantFieldsNoEditMessage: a variant whose edit operations are written
\* without their message.)
VariantFieldsNoEditMessage(opType) ==
    IF opType = "CREATE" THEN {"title", "message", "files"}
    ELSE IF opType = "ADD_COMMENT" THEN {"message", "files"}
    ELSE IF opType = "EDIT_COMMENT" THEN {"target", "files"}
    ELSE IF opType = "SET_TITLE" THEN {"title"}
    ELSE IF opType = "SET_STATUS" THEN {"status"}
    ELSE IF opType = "LABEL_CHANGE" THEN {"added", "removed"}
    ELSE {}

VariantFields(opType) ==
    IF opType = "CREATE" THEN {"title", "message", "files"}
    ELSE IF opType = "ADD_COMMENT" THEN {"message", "files"}
    ELSE IF opType = "EDIT_COMMENT" THEN {"target", "message", "files"}
    ELSE IF opType = "SET_TITLE" THEN {"title"}
    ELSE IF opType = "SET_STATUS" THEN {"status"}
    ELSE IF opType = "LABEL_CHANGE" THEN {"added", "removed"}
    ELSE {}

EncodeOp(op) ==
    [f \in {"type", "author", "unixTime", "metadata"} \cup
            VariantFields(op.type) |-> op[f]]

\* The operation decoded from a document: a field the document does not
\* have keeps its zero value.
DecodeOp(doc) ==
    LET has(f) == f \in DOMAIN doc
    IN  [type |-> doc.type, author |-> doc.author, unixTime |-> doc.unixTime,
         title |-> IF has("title") THEN doc.title ELSE <<>>,
         message |-> IF has("message") THEN doc.message ELSE <<>>,
         files |-> IF has("files") THEN doc.files ELSE NoFiles,
         target |-> IF has("target") THEN doc.target ELSE NoHash,
         status |-> IF has("status") THEN doc.status ELSE "none",
         added |-> IF has("added") THEN doc.added ELSE {},
         removed |-> IF has("removed") THEN doc.removed ELSE {},
         metadata |-> doc.metadata]

\* Bug.Commit writes the staged operations as one pack; a reader of the ref
\* gets the operations decoded from it.
StoredPack(staged) == [i \in DOMAIN staged |-> DecodeOp(EncodeOp(staged[i]))]

RECURSIVE Flatten(_)
Flatten(packs) ==
    IF packs = <<>> THEN <<>> ELSE Head(packs) \o Flatten(Tail(packs))

\* The hex digits a content address starts with, as the store derives them
\* from the content of a commit: distinct packs get distinct addresses.
TextDigit(t) == IF t = <<"a">> THEN "0" ELSE IF t = <<"b">> THEN "1" ELSE "2"
CommitHash(pack) ==
    <<TextDigit(pack[1].message),
      TextDigit(pack[1].title),
      IF pack[1].metadata = NoMeta THEN "0" ELSE "1">>

\* LastEditUnix: the latest unix time of the operations.
LastEditUnix(seq) ==
    CHOOSE t \in {seq[i].unixTime : i \in 1..Len(seq)} :
        \A i \in 1..Len(seq) : seq[i].unixTime <= t

\* NewBugExcerpt(b, snap)
NewBugExcerpt(id, seq, snap) ==
    [id |-> id,
     author |-> snap.author,
     createTime |-> seq[1].unixTime,
     editTime |-> LastEditUnix(seq),
     status |-> snap.status,
     labels |-> snap.labels,
     title |-> snap.title,
     lenComments |-> Len(snap.comments),
     createMetadata |-> seq[1].metadata]

\* bug.ReadLocalBug + NewBugCache: every operation is a committed one.
LoadedBug(packs) ==
    [ops |-> Flatten(packs), committed |-> Len(Flatten(packs)), snap |-> NoSnap]

\* Mutant of RepoCache.load: the format version is not looked at.
LoadErrAnyVersion(file) ==
    IF file.state = "missing" THEN "open: no such file"
    ELSE IF file.state = "corrupt" THEN "decode error"
    ELSE "nil"

\* RepoCache.load: the error, or "nil" when the file gives the excerpts.
LoadErr(file) ==
    IF file.state = "missing" THEN "open: no such file"
    ELSE IF file.state = "corrupt" THEN "decode error"
    ELSE IF file.version # 1 THEN "unknown cache format version"
    ELSE "nil"

\* RepoCache.write under the ways the file system answers: written;
\* os.Create fails (the file stays); f.Write fails (the file is left cut off).
\* Spec draws the outcome from WriteOutcomes.
WriteOutcomes == {"ok", "write_fail"}

WriteErr(w) == IF w = "ok" THEN "nil" ELSE "io: " \o w

write(exc, file, w) ==
    IF w = "ok"
    THEN [state |-> "ok", version |-> formatVersion, excerpts |-> exc]
    ELSE IF w = "create_fail" THEN file
    ELSE CorruptFile

\* RepoCache.buildCache: one excerpt per local bug.
buildCache(store) ==
    [id \in DOMAIN store |->
        NewBugExcerpt(id, Flatten(store[id]), Compile(Flatten(store[id])))]

IsPrefix(p, id) == Len(p) <= Len(id) /\ SubSeq(id, 1, Len(p)) = p

(***************************************************************************)
(* Spec: one process that opens the repo cache, creates, resolves, changes *)
(* and commits bugs, and exits.                                            *)
(***************************************************************************)
CreateInputs ==
    {[title |-> <<"a">>, message |-> <<"a">>, metadata |-> NoMeta],
     [title |-> <<"b">>, message |-> <<"a">>, metadata |-> NoMeta],
     [title |-> <<>>, message |-> <<"a">>, metadata |-> NoMeta]}
Prefixes == {<<"0">>, <<"0", "0">>, <<"0", "1">>, <<"1">>}

CacheInit ==
    /\ repo = EmptyMap
    /\ cacheFile \in {MissingFile, CorruptFile,
                      [state |-> "ok", version |-> 2, excerpts |-> EmptyMap],
                      [state |-> "ok", version |-> 1, excerpts |-> EmptyMap]}
    /\ lockFile \in {"none", "stale", "other"}
    /\ opened = FALSE
    /\ excerpts = EmptyMap
    /\ bugs = EmptyMap
    /\ last = NoCall
    /\ SnapIdle /\ CreateIdle /\ LockIdle /\ IdIdle /\ MergeIdle /\ JsonIdle /\ ReplicaIdle

\* The operations of all bugs, staged ones included.
TotalOps ==
    Cardinality({<<id, i>> \in (DOMAIN repo) \X (1..MaxBugOps) :
                    i <= Len(IF id \in DOMAIN bugs THEN bugs[id].ops
                                                   ELSE Flatten(repo[id]))})

\* The process dies: its memory is gone, its lock file stays behind.
Dies ==
    /\ opened' = FALSE
    /\ excerpts' = EmptyMap
    /\ bugs' = EmptyMap
    /\ lockFile' = IF lockFile = "self" THEN "stale" ELSE lockFile

\* NewRepoCache: lock, then load, else buildCache and write.
NewRepoCache ==
    /\ ~opened
    /\ UNCHANGED <<repo, snapVars, createVars,
                 lockVars, idVars, mergeVars, jsonVars,
                replicaVars>>
    /\ IF lockFile \in {"other", "self"}
       THEN \* repoIsAvailable: the pid in the lock file is alive
            /\ last' = Ret("NewRepoCache", NoId, <<>>, "locked", {})
            /\ UNCHANGED <<cacheFile, lockFile, opened, excerpts, bugs>>
       ELSE /\ lockFile' = "self"
            /\ bugs' = EmptyMap
            /\ IF LoadErr(cacheFile) = "nil"
               THEN /\ excerpts' = cacheFile.excerpts
                    /\ opened' = TRUE
                    /\ last' = Ret("NewRepoCache", NoId, "loaded", "nil", {})
                    /\ UNCHANGED cacheFile
               ELSE \E readFails \in {r \in BOOLEAN : r => repo # EmptyMap} :
                      IF readFails
                      THEN \* buildCache returns b.Err; NewRepoCache returns nil
                           /\ excerpts' = EmptyMap
                           /\ opened' = FALSE
                           /\ last' = Ret("NewRepoCache", NoId, "rebuilt",
                                          "read error", {})
                           /\ UNCHANGED cacheFile
                      ELSE \E w \in WriteOutcomes :
                           /\ cacheFile' = write(buildCache(repo), cacheFile, w)
                           /\ excerpts' = IF w = "ok" THEN buildCache(repo)
                                          ELSE EmptyMap
                           /\ opened' = (w = "ok")
                           /\ last' = Ret("NewRepoCache", NoId, "rebuilt",
                                          WriteErr(w), {})

\* Mutant of RepoCache.bugUpdated: the excerpt is replaced in memory but the
\* file is not written.
BugUpdatedNoWrite(call, id, arg, b) ==
    IF CompilePanics(b.ops)
    THEN /\ Dies
         /\ last' = Ret(call, id, arg, "panic", {})
         /\ UNCHANGED cacheFile
    ELSE LET snap == Compile(b.ops)
             exc == MapPut(excerpts, id, NewBugExcerpt(id, b.ops, snap))
         IN  /\ bugs' = MapPut(bugs, id, [b EXCEPT !.snap = snap])
             /\ excerpts' = exc
             /\ last' = Ret(call, id, arg, "nil", {})
             /\ UNCHANGED <<cacheFile, opened, lockFile>>

\* RepoCache.bugUpdated(id) for the bug b (already in c.bugs), and what the
\* caller returns: the snapshot is compiled, the excerpt replaced, the file
\* written.  A panic of the compilation kills the process.
BugUpdated(call, id, arg, b) ==
    IF CompilePanics(b.ops)
    THEN /\ Dies
         /\ last' = Ret(call, id, arg, "panic", {})
         /\ UNCHANGED cacheFile
    ELSE \E w \in WriteOutcomes :
         LET snap == Compile(b.ops)
             exc == MapPut(excerpts, id, NewBugExcerpt(id, b.ops, snap))
         IN  /\ bugs' = MapPut(bugs, id, [b EXCEPT !.snap = snap])
             /\ excerpts' = exc
             /\ cacheFile' = write(exc, cacheFile, w)
             /\ last' = Ret(call, id, arg, WriteErr(w), {})
             /\ UNCHANGED <<opened, lockFile>>

\* RepoCache.NewBugRaw
NewBugRaw ==
    /\ opened
    /\ UNCHANGED <<snapVars, createVars,
                 lockVars, idVars, mergeVars, jsonVars,
                replicaVars>>
    /\ \E arg \in CreateInputs, commitFails \in BOOLEAN :
        LET r == CreateWithFiles("A", 1, arg.title, arg.message, NoFiles)
            \* op points into the bug: SetMetadata changes the bug's create
            staged == [i \in DOMAIN r.bug.ops |->
                          SetMetadata(r.bug.ops[i], arg.metadata)]
            b == [ops |-> staged, committed |-> Len(staged), snap |-> NoSnap]
            id == CommitHash(staged)
        IN  IF r.err # "nil"
            THEN /\ last' = Ret("NewBugRaw", NoId, arg, r.err, {})
                 /\ UNCHANGED <<repo, cacheFile, lockFile, opened, excerpts, bugs>>
            ELSE /\ id \notin DOMAIN repo
                 /\ Cardinality(DOMAIN repo) < MaxBugs
                 /\ TotalOps < MaxTotalOps
                 /\ IF commitFails
                    THEN /\ last' = Ret("NewBugRaw", NoId, arg, "commit error", {})
                         /\ UNCHANGED <<repo, cacheFile, lockFile, opened,
                                        excerpts, bugs>>
                    ELSE /\ repo' = MapPut(repo, id, <<StoredPack(staged)>>)
                         /\ BugUpdated("NewBugRaw", id, arg, b)

\* Mutant of RepoCache.ResolveBugPrefix: two matches are not yet too many.
ResolveBugPrefixUpToTwo ==
    /\ opened
    /\ UNCHANGED <<repo, cacheFile, lockFile, opened, excerpts, snapVars, createVars,
                 lockVars, idVars, mergeVars, jsonVars,
                replicaVars>>
    /\ \E prefix \in Prefixes :
        LET matching == {id \in DOMAIN excerpts : IsPrefix(prefix, id)}
        IN  IF Cardinality(matching) > 2
            THEN /\ last' = Ret("ResolveBugPrefix", NoId, prefix,
                                "ErrMultipleMatch", matching)
                 /\ UNCHANGED bugs
            ELSE IF Cardinality(matching) = 0
            THEN /\ last' = Ret("ResolveBugPrefix", NoId, prefix,
                                "ErrBugNotExist", {})
                 /\ UNCHANGED bugs
            ELSE LET id == CHOOSE i \in matching : TRUE
                 IN  IF id \in DOMAIN bugs
                     THEN /\ last' = Ret("ResolveBugPrefix", id, prefix, "nil", {})
                          /\ UNCHANGED bugs
                     ELSE \E readFails \in BOOLEAN :
                          IF readFails \/ id \notin DOMAIN repo
                          THEN /\ last' = Ret("ResolveBugPrefix", NoId, prefix,
                                              "read error", {})
                               /\ UNCHANGED bugs
                          ELSE /\ bugs' = MapPut(bugs, id, LoadedBug(repo[id]))
                               /\ last' = Ret("ResolveBugPrefix", id, prefix,
                                              "nil", {})

\* RepoCache.ResolveBugPrefix (and the ResolveBug it ends with)
ResolveBugPrefix ==
    /\ opened
    /\ UNCHANGED <<repo, cacheFile, lockFile, opened, excerpts, snapVars, createVars,
                 lockVars, idVars, mergeVars, jsonVars,
                replicaVars>>
    /\ \E prefix \in Prefixes :
        LET matching == {id \in DOMAIN excerpts : IsPrefix(prefix, id)}
        IN  IF Cardinality(matching) > 1
            THEN /\ last' = Ret("ResolveBugPrefix", NoId, prefix,
                                "ErrMultipleMatch", matching)
                 /\ UNCHANGED bugs
            ELSE IF Cardinality(matching) = 0
            THEN /\ last' = Ret("ResolveBugPrefix", NoId, prefix,
                                "ErrBugNotExist", {})
                 /\ UNCHANGED bugs
            ELSE LET id == CHOOSE i \in matching : TRUE
                 IN  IF id \in DOMAIN bugs
                     THEN /\ last' = Ret("ResolveBugPrefix", id, prefix, "nil", {})
                          /\ UNCHANGED bugs
                     ELSE \E readFails \in BOOLEAN :
                          IF readFails \/ id \notin DOMAIN repo
                          THEN /\ last' = Ret("ResolveBugPrefix", NoId, prefix,
                                              "read error", {})
                               /\ UNCHANGED bugs
                          ELSE /\ bugs' = MapPut(bugs, id, LoadedBug(repo[id]))
                               /\ last' = Ret("ResolveBugPrefix", id, prefix,
                                              "nil", {})

\* AddCommentOperation.Validate
AddCommentValidate(op) ==
    IF opBaseValidate(op, "ADD_COMMENT") # "nil"
    THEN opBaseValidate(op, "ADD_COMMENT")
    ELSE IF ~TextSafe(op.message) THEN "message is not fully printable"
    ELSE "nil"

\* SetTitleOperation.Validate: the constraints of a create's title.
SetTitleValidate(op) ==
    IF opBaseValidate(op, "SET_TITLE") # "nil"
    THEN opBaseValidate(op, "SET_TITLE")
    ELSE IF TextEmpty(op.title) THEN "title is empty"
    ELSE IF ContainsNewline(op.title) THEN "title should be a single line"
    ELSE IF ~TextSafe(op.title) THEN "title is not fully printable"
    ELSE "nil"

\* SetStatusOperation.Validate
SetStatusValidate(op) ==
    IF opBaseValidate(op, "SET_STATUS") # "nil"
    THEN opBaseValidate(op, "SET_STATUS")
    ELSE IF op.status \notin {"open", "closed"} THEN "invalid status"
    ELSE "nil"

\* bug.ChangeLabels: labels to add that the bug has and labels to remove that
\* it has not are dropped; with nothing left there is no operation.
ChangeLabelsOp(labels, author, unixTime, added, removed) ==
    NewLabelChangeOp(author, unixTime, added \ labels, removed \cap labels)

ChangeLabelsErr(op) ==
    IF op.added = {} /\ op.removed = {} THEN "no label to change" ELSE "nil"

\* (MutatorApplyBeforeMetadata: a variant of the body of the mutators whose
\* snapshot has the new operation applied as it was appended, before the
\* metadata is set.)
MutatorApplyBeforeMetadata(call, id, arg, op, err, metadata) ==
    /\ opened
    /\ id \in DOMAIN bugs
    /\ UNCHANGED <<repo, snapVars, createVars, lockVars, idVars, mergeVars,
                   jsonVars, replicaVars>>
    /\ IF err # "nil"
       THEN /\ last' = Ret(call, id, arg, err, {})
            /\ UNCHANGED <<cacheFile, lockFile, opened, excerpts, bugs>>
       ELSE /\ Len(bugs[id].ops) < MaxBugOps
            /\ TotalOps < MaxTotalOps
            /\ ~CompilePanics(Append(bugs[id].ops, op))
            /\ \E w \in WriteOutcomes :
                LET seq == Append(bugs[id].ops, SetMetadata(op, metadata))
                    snap == Compile(Append(bugs[id].ops, op))
                    exc == MapPut(excerpts, id, NewBugExcerpt(id, seq, snap))
                IN  /\ bugs' = MapPut(bugs, id,
                                      [bugs[id] EXCEPT !.ops = seq,
                                                       !.snap = snap])
                    /\ excerpts' = exc
                    /\ cacheFile' = write(exc, cacheFile, w)
                    /\ last' = Ret(call, id, arg, WriteErr(w), {})
                    /\ UNCHANGED <<opened, lockFile>>

\* The body shared by the BugCache *Raw mutators: the operation made by the
\* convenience function of package bug is validated; if valid it is appended,
\* the metadata set, and the repo cache notified.
Mutator(call, id, arg, op, err, metadata) ==
    /\ opened
    /\ id \in DOMAIN bugs
    /\ UNCHANGED <<repo, snapVars, createVars,
                 lockVars, idVars, mergeVars, jsonVars,
                replicaVars>>
    /\ IF err # "nil"
       THEN /\ last' = Ret(call, id, arg, err, {})
            /\ UNCHANGED <<cacheFile, lockFile, opened, excerpts, bugs>>
       ELSE /\ Len(bugs[id].ops) < MaxBugOps
            /\ TotalOps < MaxTotalOps
            /\ BugUpdated(call, id, arg,
                          [bugs[id] EXCEPT
                              !.ops = Append(@, SetMetadata(op, metadata)),
                              !.snap = NoSnap])

MutatorMetas == {NoMeta}

\* BugCache.AddCommentRaw
AddCommentRaw ==
    \E id \in DOMAIN bugs, message \in {<<"b">>, <<"ctl">>},
       metadata \in MutatorMetas :
        LET op == NewAddCommentOp("A", 1, message, NoFiles)
        IN  Mutator("AddCommentRaw", id, [message |-> message], op,
                    AddCommentValidate(op), metadata)

\* BugCache.EditCommentRaw: the target is the hash of an item of the bug's
\* timeline, a hash of no operation, or no well-formed hash.
EditCommentRaw ==
    \E id \in DOMAIN bugs, metadata \in MutatorMetas :
      \E in \in ({hashOperation(bugs[id].ops[i]) : i \in 1..Len(bugs[id].ops)}
                    \cup {UnknownHash, <<"zz">>}) \X {<<"a", "b">>}
                 \cup {<<hashOperation(bugs[id].ops[1]), <<"ctl">> >>} :
        LET target == in[1]
            message == in[2]
            op == NewEditCommentOp("A", 1, target, message, NoFiles)
        IN  Mutator("EditCommentRaw", id,
                    [target |-> target, message |-> message], op,
                    EditCommentValidate(op), metadata)

\* BugCache.SetTitleRaw
SetTitleRaw ==
    \E id \in DOMAIN bugs, title \in {<<"b">>, <<"a", "nl">>},
       metadata \in MutatorMetas :
        LET op == NewSetTitleOp("A", 1, title)
        IN  Mutator("SetTitleRaw", id, [title |-> title], op,
                    SetTitleValidate(op), metadata)

\* BugCache.OpenRaw
OpenRaw ==
    \E id \in DOMAIN bugs, metadata \in MutatorMetas :
        LET op == NewSetStatusOp("A", 1, "open")
        IN  Mutator("OpenRaw", id, <<>>, op, SetStatusValidate(op), metadata)

\* BugCache.CloseRaw
CloseRaw ==
    \E id \in DOMAIN bugs, metadata \in MutatorMetas :
        LET op == NewSetStatusOp("A", 1, "closed")
        IN  Mutator("CloseRaw", id, <<>>, op, SetStatusValidate(op), metadata)

\* BugCache.ChangeLabelsRaw
ChangeLabelsRaw ==
    \E id \in DOMAIN bugs, l \in Labels, add \in BOOLEAN,
       metadata \in MutatorMetas :
        LET added == IF add THEN {l} ELSE {}
            removed == IF add THEN {} ELSE {l}
            op == ChangeLabelsOp(Compile(bugs[id].ops).labels, "A", 1,
                                 added, removed)
        IN  Mutator("ChangeLabelsRaw", id,
                    [added |-> added, removed |-> removed], op,
                    ChangeLabelsErr(op), metadata)

\* BugCache.Commit: the staged operations become one more pack of the ref.
Commit ==
    /\ opened
    /\ UNCHANGED <<cacheFile, lockFile, opened, excerpts, snapVars, createVars,
                 lockVars, idVars, mergeVars, jsonVars,
                replicaVars>>
    /\ \E id \in DOMAIN bugs, commitFails \in BOOLEAN :
        LET b == bugs[id]
            staged == SubSeq(b.ops, b.committed + 1, Len(b.ops))
        IN  IF staged = <<>>
            THEN /\ last' = Ret("Commit", id, <<>>,
                                "can't commit a bug with no pending operation", {})
                 /\ UNCHANGED <<repo, bugs>>
            ELSE IF commitFails
            THEN /\ last' = Ret("Commit", id, <<>>, "commit error", {})
                 /\ UNCHANGED <<repo, bugs>>
            ELSE /\ repo' = [repo EXCEPT ![id] = Append(@, StoredPack(staged))]
                 /\ bugs' = [bugs EXCEPT ![id].committed = Len(b.ops)]
                 /\ last' = Ret("Commit", id, <<>>, "nil", {})

\* Bug.HasPendingOp: the staging region is not empty.
HasPendingOp(b) == b.committed < Len(b.ops)

\* Bug.Commit as the last statement of the call `call`: the staged
\* operations become one more pack of the ref, and none without any.
BugCommit(call, id, commitFails) ==
    LET b == bugs[id]
        staged == SubSeq(b.ops, b.committed + 1, Len(b.ops))
    IN  IF staged = <<>>
        THEN /\ last' = Ret(call, id, <<>>,
                            "can't commit a bug with no pending operation", {})
             /\ UNCHANGED <<repo, bugs>>
        ELSE IF commitFails
        THEN /\ last' = Ret(call, id, <<>>, "commit error", {})
             /\ UNCHANGED <<repo, bugs>>
        ELSE /\ repo' = [repo EXCEPT ![id] = Append(@, StoredPack(staged))]
             /\ bugs' = [bugs EXCEPT ![id].committed = Len(b.ops)]
             /\ last' = Ret(call, id, <<>>, "nil", {})

\* (CommitAsNeededAlways: a variant that commits without asking whether an
\* operation is pending.)
CommitAsNeededAlways ==
    /\ opened
    /\ UNCHANGED <<cacheFile, lockFile, opened, excerpts, snapVars, createVars,
                   lockVars, idVars, mergeVars, jsonVars, replicaVars>>
    /\ \E id \in DOMAIN bugs, commitFails \in BOOLEAN :
          BugCommit("CommitAsNeeded", id, commitFails)

\* BugCache.CommitAsNeeded
CommitAsNeeded ==
    /\ opened
    /\ UNCHANGED <<cacheFile, lockFile, opened, excerpts, snapVars, createVars,
                   lockVars, idVars, mergeVars, jsonVars, replicaVars>>
    /\ \E id \in DOMAIN bugs, commitFails \in BOOLEAN :
          IF HasPendingOp(bugs[id])
          THEN BugCommit("CommitAsNeeded", id, commitFails)
          ELSE /\ last' = Ret("CommitAsNeeded", id, <<>>, "nil", {})
               /\ UNCHANGED <<repo, bugs>>

\* RepoCache.Close: the lock file is removed; the holder gives the cache up.
Close ==
    /\ opened
    /\ lockFile' = "none"
    /\ opened' = FALSE
    /\ excerpts' = EmptyMap
    /\ bugs' = EmptyMap
    /\ last' = Ret("Close", NoId, <<>>, "nil", {})
    /\ UNCHANGED <<repo, cacheFile, snapVars, createVars,
                 lockVars, idVars, mergeVars, jsonVars,
                replicaVars>>

\* The process ends without Close; the next call is made by a new process.
Exit ==
    /\ opened \/ lockFile = "self"
    /\ Dies
    /\ last' = Ret("Exit", NoId, <<>>, "nil", {})
    /\ UNCHANGED <<repo, cacheFile, snapVars, createVars,
                 lockVars, idVars, mergeVars, jsonVars,
                replicaVars>>

\* While no process holds the cache, the cache file is deleted or replaced by
\* one of another format version.
CacheFileLost ==
    /\ ~opened
    /\ cacheFile.state = "ok" /\ cacheFile.version = formatVersion
    /\ cacheFile' \in {MissingFile,
                      [state |-> "ok", version |-> 2, excerpts |-> EmptyMap]}
    /\ last' = Ret("CacheFileLost", NoId, <<>>, "nil", {})
    /\ UNCHANGED <<repo, lockFile, opened, excerpts, bugs, snapVars, createVars,
                 lockVars, idVars, mergeVars, jsonVars,
                replicaVars>>

Next ==
    \/ NewRepoCache
    \/ NewBugRaw
    \/ ResolveBugPrefix
    \/ AddCommentRaw
    \/ EditCommentRaw
    \/ SetTitleRaw
    \/ OpenRaw
    \/ CloseRaw
    \/ ChangeLabelsRaw
    \/ Commit
    \/ CommitAsNeeded
    \/ Close
    \/ Exit
    \/ CacheFileLost

Spec == CacheInit /\ [][Next]_vars

(***************************************************************************)
(* SpecQuery: a RepoCache opened over a store of up to MaxQueryBugs bugs;  *)
(* the calls are ResolveBugCreateMetadata and QueryBugs.                   *)
(***************************************************************************)
MaxQueryBugs == 2

\* Go's map read m[key]: the value stored under the key, and the zero value
\* "" when the key is absent (or the map is nil).
MapGet(metadata, key) ==
    IF \E kv \in metadata : kv[1] = key
    THEN (CHOOSE kv \in metadata : kv[1] = key)[2]
    ELSE ""

QueryMetas == {NoMeta, {<<"origin", "x">>}, {<<"origin", "">>}}

\* The bugs of the stores: a create, alone or followed by a close or by a
\* label change at a later time.  The bugs with create metadata (imported
\* ones) are the older ones, so that the order of the ids, of the creation
\* times and of the edit times differ.
QueryPool ==
    {<<SetMetadata(NewCreateOp("A", IF metadata = NoMeta THEN 2 ELSE 1, title,
                               <<"a">>, NoFiles), metadata)>>
        \o tail :
        title \in {<<"a">>, <<"b">>}, metadata \in QueryMetas,
        tail \in {<<>>,
                  <<NewSetStatusOp("A", 3, "closed")>>,
                  <<NewLabelChangeOp("A", 2, {"l1"}, {})>>}}

\* The stores of up to n bugs of the pool, one ref per id.
RECURSIVE QueryStores(_)
QueryStores(n) ==
    IF n = 0 THEN {EmptyMap}
    ELSE QueryStores(n - 1) \cup
         {MapPut(st, CommitHash(b), <<b>>) :
             <<st, b>> \in {x \in QueryStores(n - 1) \X QueryPool :
                               CommitHash(x[2]) \notin DOMAIN x[1]}}

QueryInit ==
    /\ repo \in QueryStores(MaxQueryBugs)
    /\ excerpts = buildCache(repo)
    /\ cacheFile = [state |-> "ok", version |-> formatVersion,
                    excerpts |-> buildCache(repo)]
    /\ lockFile = "self"
    /\ opened = TRUE
    /\ bugs = EmptyMap
    /\ last = NoCall
    /\ SnapIdle /\ CreateIdle /\ LockIdle /\ IdIdle /\ MergeIdle /\ JsonIdle /\ ReplicaIdle

\* RepoCache.ResolveBug(id), as the last statement of the call `call`.
ResolveBug(call, arg, id) ==
    IF id \in DOMAIN bugs
    THEN /\ last' = Ret(call, id, arg, "nil", {})
         /\ UNCHANGED bugs
    ELSE \E readFails \in BOOLEAN :
         IF readFails \/ id \notin DOMAIN repo
         THEN /\ last' = Ret(call, NoId, arg, "read error", {})
              /\ UNCHANGED bugs
         ELSE /\ bugs' = MapPut(bugs, id, LoadedBug(repo[id]))
              /\ last' = Ret(call, id, arg, "nil", {})

\* RepoCache.ResolveBugCreateMetadata(key, value)
ResolveBugCreateMetadata ==
    /\ opened
    /\ UNCHANGED <<repo, cacheFile, lockFile, opened, excerpts, snapVars,
                   createVars, lockVars, idVars, mergeVars, jsonVars,
                replicaVars>>
    /\ \E key \in {"origin"}, value \in {"x", "", "y"} :
        LET arg == [key |-> key, value |-> value]
            matching == {id \in DOMAIN excerpts :
                            MapGet(excerpts[id].createMetadata, key) = value}
        IN  IF Cardinality(matching) > 1
            THEN /\ last' = Ret("ResolveBugCreateMetadata", NoId, arg,
                                "ErrMultipleMatch", matching)
                 /\ UNCHANGED bugs
            ELSE IF Cardinality(matching) = 0
            THEN /\ last' = Ret("ResolveBugCreateMetadata", NoId, arg,
                                "ErrBugNotExist", {})
                 /\ UNCHANGED bugs
            ELSE ResolveBug("ResolveBugCreateMetadata", arg,
                            CHOOSE i \in matching : TRUE)

\* A Query: the statuses asked for (none: any), the labels required, the
\* sort key and the direction.
Queries ==
    [status : {{}, {"open"}, {"closed"}},
     label : {{}, {"l1"}},
     orderBy : {"OrderById", "OrderByCreation", "OrderByEdit"},
     orderDirection : {"OrderAscending", "OrderDescending"}]

\* Query.Match: the conjunction of the filters.
QueryMatch(query, excerpt) ==
    /\ query.status = {} \/ excerpt.status \in query.status
    /\ query.label \subseteq excerpt.labels

\* a < b for two strings of hex digits, as Go compares strings.
RECURSIVE StringLess(_, _)
StringLess(a, b) ==
    LET rank == [c \in {"0", "1", "2"} |->
                    IF c = "0" THEN 0 ELSE IF c = "1" THEN 1 ELSE 2]
    IN  IF b = <<>> THEN FALSE
        ELSE IF a = <<>> THEN TRUE
        ELSE IF rank[Head(a)] # rank[Head(b)] THEN rank[Head(a)] < rank[Head(b)]
        ELSE StringLess(Tail(a), Tail(b))

\* Less of BugsById, BugsByCreationTime, BugsByEditTime
SorterLess(orderBy, a, b) ==
    CASE orderBy = "OrderById"       -> StringLess(a.id, b.id)
      [] orderBy = "OrderByCreation" -> a.createTime < b.createTime
      [] orderBy = "OrderByEdit"     -> a.editTime < b.editTime

\* Mutant of the sorter of QueryBugs: the direction is not looked at.
QueryLessOneWay(query, a, b) == SorterLess(query.orderBy, a, b)

\* The sorter QueryBugs passes to sort.Sort: sort.Reverse swaps the arguments.
QueryLess(query, a, b) ==
    IF query.orderDirection = "OrderDescending"
    THEN SorterLess(query.orderBy, b, a)
    ELSE SorterLess(query.orderBy, a, b)

\* sort.Sort by insertion.  It is given the excerpts in the order the map
\* was iterated in, which is any order, so that elements the sorter does
\* not tell apart come out in any order.
RECURSIVE SortInsert(_, _, _)
SortInsert(sorted, x, query) ==
    IF sorted = <<>> THEN <<x>>
    ELSE LET n == Len(sorted)
         IN  IF QueryLess(query, x, sorted[n])
             THEN Append(SortInsert(SubSeq(sorted, 1, n - 1), x, query), sorted[n])
             ELSE Append(sorted, x)

RECURSIVE SortSort(_, _)
SortSort(seq, query) ==
    IF seq = <<>> THEN <<>>
    ELSE SortInsert(SortSort(SubSeq(seq, 1, Len(seq) - 1), query),
                    seq[Len(seq)], query)

\* The orders a range over a map with the keys S can take.
MapOrders(S) ==
    {f \in [1..Cardinality(S) -> S] :
        \A i, j \in 1..Cardinality(S) : i # j => f[i] # f[j]}

\* RepoCache.AllBugsIds
AllBugsIds(order) == [i \in DOMAIN order |-> excerpts[order[i]].id]

\* query == nil
NilQuery ==
    [status |-> {}, label |-> {}, orderBy |-> "nil", orderDirection |-> "nil"]

\* RepoCache.QueryBugs(query); the list returned is kept in last.matching.
QueryBugs ==
    /\ opened
    /\ UNCHANGED <<repo, cacheFile, lockFile, opened, excerpts, bugs, snapVars,
                   createVars, lockVars, idVars, mergeVars, jsonVars,
                replicaVars>>
    /\ \E query \in Queries \cup {NilQuery}, order \in MapOrders(DOMAIN excerpts) :
        IF query = NilQuery
        THEN last' = Ret("QueryBugs", NoId, query, "nil", AllBugsIds(order))
        ELSE LET kept == {i \in DOMAIN order :
                            QueryMatch(query, excerpts[order[i]])}
                 \* the matching excerpts, in the order of the iteration
                 RECURSIVE Filtered(_)
                 Filtered(i) ==
                    IF i = 0 THEN <<>>
                    ELSE IF i \in kept
                    THEN Append(Filtered(i - 1), excerpts[order[i]])
                    ELSE Filtered(i - 1)
                 sorted == SortSort(Filtered(Len(order)), query)
             IN  last' = Ret("QueryBugs", NoId, query, "nil",
                             [i \in DOMAIN sorted |-> sorted[i].id])

QueryNext ==
    \/ ResolveBugCreateMetadata
    \/ QueryBugs

SpecQuery == QueryInit /\ [][QueryNext]_vars

(***************************************************************************)
(* SpecLock: two processes call NewRepoCache and Close on one repository,  *)
(* one system call at a time.  The store has no bug.                       *)
(***************************************************************************)
\* os.Getpid() of the two processes.
Pid == [p \in Procs |-> IF p = "p1" THEN 3 ELSE 12]

\* The processes that run: pid 1 throughout, p1 and p2 until they end.
Running == {1} \cup {Pid[p] : p \in {q \in Procs : proc[q].pc # "dead"}}

Digits == {"0", "1", "2", "3", "4", "5", "6", "7", "8", "9"}
DigitOf(n) ==
    CHOOSE d \in Digits :
        d = <<"0", "1", "2", "3", "4", "5", "6", "7", "8", "9">>[n + 1]

\* fmt.Sprintf("%d", pid)
RECURSIVE FormatPid(_)
FormatPid(n) ==
    IF n < 10 THEN <<DigitOf(n)>>
    ELSE Append(FormatPid(n \div 10), DigitOf(n % 10))

\* strconv.Atoi: the number the digits write, AtoiError for the empty string
\* and for a string with another byte.
AtoiError == -1
RECURSIVE AtoiDigits(_)
AtoiDigits(buf) ==
    IF buf = <<>> THEN 0
    ELSE LET n == Len(buf)
             v == CHOOSE k \in 0..9 : DigitOf(k) = buf[n]
         IN  10 * AtoiDigits(SubSeq(buf, 1, n - 1)) + v
Atoi(buf) ==
    IF buf = <<>> \/ \E i \in DOMAIN buf : buf[i] \notin Digits
    THEN AtoiError
    ELSE AtoiDigits(buf)

\* io.LimitReader(f, 10)
ReadLimit == 10
LimitRead(file) ==
    SubSeq(file, 1, IF Len(file) < ReadLimit THEN Len(file) ELSE ReadLimit)

\* Mutant of repoIsAvailable: the liveness of the pid is not looked at.
repoIsAvailableAnyPid(file, running) ==
    IF file = NoLockFile THEN [err |-> "nil", stale |-> FALSE]
    ELSE LET buf == LimitRead(file)
         IN  IF Len(buf) = 10
             THEN [err |-> "the lock file should be < 10 bytes", stale |-> FALSE]
             ELSE IF Atoi(buf) = AtoiError
             THEN [err |-> "invalid syntax", stale |-> FALSE]
             ELSE [err |-> "nil", stale |-> TRUE]

\* Mutant of repoIsAvailable: a lock file of a process that is gone is an
\* error.
repoIsAvailableNoCleaning(file, running) ==
    IF file = NoLockFile THEN [err |-> "nil", stale |-> FALSE]
    ELSE LET buf == LimitRead(file)
         IN  IF Len(buf) = 10
             THEN [err |-> "the lock file should be < 10 bytes", stale |-> FALSE]
             ELSE IF Atoi(buf) = AtoiError
             THEN [err |-> "invalid syntax", stale |-> FALSE]
             ELSE [err |-> "already locked", stale |-> FALSE]

\* repoIsAvailable up to the decision: the error it returns, or "nil" and
\* whether a lock file is there to be cleaned.
repoIsAvailable(file, running) ==
    IF file = NoLockFile THEN [err |-> "nil", stale |-> FALSE]
    ELSE LET buf == LimitRead(file)
         IN  IF Len(buf) = 10
             THEN [err |-> "the lock file should be < 10 bytes", stale |-> FALSE]
             ELSE IF Atoi(buf) = AtoiError
             THEN [err |-> "invalid syntax", stale |-> FALSE]
             ELSE IF Atoi(buf) \in running
             THEN [err |-> "already locked", stale |-> FALSE]
             ELSE [err |-> "nil", stale |-> TRUE]

\* The lock files a process may find: none; the pid of a process that is
\* gone; the pid of a running one; pids of ten and of eleven digits of
\* processes that are gone; something that is no number.
InitialLocks ==
    {NoLockFile, FormatPid(99999), FormatPid(1), FormatPid(1234567890),
     Append(FormatPid(1234567890), "1"), <<"x">>}

LockInit ==
    /\ lockData \in InitialLocks
    /\ proc = [p \in Procs |-> NewProc]
    /\ cacheFile \in {MissingFile,
                      [state |-> "ok", version |-> formatVersion,
                       excerpts |-> EmptyMap]}
    /\ repo = EmptyMap /\ lockFile = "none" /\ opened = FALSE
    /\ excerpts = EmptyMap /\ bugs = EmptyMap /\ last = NoCall
    /\ SnapIdle /\ CreateIdle /\ IdIdle /\ MergeIdle /\ JsonIdle /\ ReplicaIdle

lockFrame ==
    UNCHANGED <<repo, lockFile, opened, excerpts, bugs, last, snapVars,
                createVars, idVars, mergeVars, jsonVars,
                replicaVars>>

\* The other processes after p changed the lock file.
Disturbed(p, unlink) ==
    [q \in Procs \ {p} |->
        [proc[q] EXCEPT !.alone = FALSE,
                        !.linked = IF unlink THEN FALSE ELSE @]]

\* NewRepoCache, lock, repoIsAvailable: the file is opened and read, and the
\* call returns with an error or goes on.
IsAvailable(p) ==
    /\ proc[p].pc = "start"
    /\ LET r == repoIsAvailable(lockData, Running)
       IN  proc' = [proc EXCEPT
                       ![p].seen = lockData,
                       ![p].alone = TRUE,
                       ![p].err = r.err,
                       ![p].pc = IF r.err # "nil" THEN "failed"
                                 ELSE IF r.stale THEN "remove" ELSE "create"]
    /\ UNCHANGED <<lockData, cacheFile>>
    /\ lockFrame

\* repoIsAvailable: f.Close(), os.Remove(lockPath), its error dropped.
RemoveStale(p) ==
    /\ proc[p].pc = "remove"
    /\ lockData' = NoLockFile
    /\ proc' = [q \in Procs |->
                   IF q = p THEN [proc[p] EXCEPT !.pc = "create"]
                   ELSE Disturbed(p, TRUE)[q]]
    /\ UNCHANGED cacheFile
    /\ lockFrame

\* lock: os.Create(lockPath) makes the file or cuts the one there to nothing.
CreateLock(p) ==
    /\ proc[p].pc = "create"
    /\ lockData' = <<>>
    /\ proc' = [q \in Procs |->
                   IF q = p THEN [proc[p] EXCEPT !.pc = "write", !.linked = TRUE]
                   ELSE Disturbed(p, FALSE)[q]]
    /\ UNCHANGED cacheFile
    /\ lockFrame

\* lock: f.WriteString(pid) at the start of the file the process created,
\* which is the file at the path unless the path was removed meanwhile.
WritePid(p) ==
    /\ proc[p].pc = "write"
    /\ LET pid == FormatPid(Pid[p])
       IN  lockData' = IF proc[p].linked
                       THEN pid \o SubSeq(lockData, Len(pid) + 1, Len(lockData))
                       ELSE lockData
    /\ proc' = [q \in Procs |->
                   IF q = p THEN [proc[p] EXCEPT !.pc = "load"]
                   ELSE Disturbed(p, FALSE)[q]]
    /\ UNCHANGED cacheFile
    /\ lockFrame

\* NewRepoCache after lock: load, else buildCache and write.
LoadCache(p) ==
    /\ proc[p].pc = "load"
    /\ UNCHANGED lockData
    /\ lockFrame
    /\ IF LoadErr(cacheFile) = "nil"
       THEN /\ proc' = [proc EXCEPT ![p].pc = "holding",
                                    ![p].excerpts = cacheFile.excerpts]
            /\ UNCHANGED cacheFile
       ELSE \E readFails \in BOOLEAN :
              IF readFails
              THEN /\ proc' = [proc EXCEPT ![p].pc = "failed",
                                           ![p].err = "read error"]
                   /\ UNCHANGED cacheFile
              ELSE \E w \in WriteOutcomes :
                   /\ cacheFile' = write(buildCache(repo), cacheFile, w)
                   /\ proc' = [proc EXCEPT
                                  ![p].pc = IF w = "ok" THEN "holding"
                                                        ELSE "failed",
                                  ![p].err = WriteErr(w),
                                  ![p].excerpts = buildCache(repo)]

\* RepoCache.Close: os.Remove(lockPath)
CloseLock(p) ==
    /\ proc[p].pc = "holding"
    /\ lockData' = NoLockFile
    /\ proc' = [q \in Procs |->
                   IF q = p THEN NewProc ELSE Disturbed(p, TRUE)[q]]
    /\ UNCHANGED cacheFile
    /\ lockFrame

\* The process ends, by returning from main after an error or by a signal
\* it cannot handle; nothing is cleaned.
Ends(p) ==
    /\ proc[p].pc # "dead"
    /\ proc' = [proc EXCEPT ![p] = [NewProc EXCEPT !.pc = "dead"]]
    /\ UNCHANGED <<lockData, cacheFile>>
    /\ lockFrame

LockNext ==
    \E p \in Procs :
        \/ IsAvailable(p)
        \/ RemoveStale(p)
        \/ CreateLock(p)
        \/ WritePid(p)
        \/ LoadCache(p)
        \/ CloseLock(p)
        \/ Ends(p)

SpecLock == LockInit /\ [][LockNext]_vars

(***************************************************************************)
(* SpecIdentity: one Identity in memory and the store it is committed to.  *)
(* A commit is addressed by its content: the tree (one blob, the version), *)
(* the parent and the time it was made at.  A hash is written as the chain *)
(* it stands for, the <<version, time>> of the root first, so that the     *)
(* parent of a commit is the chain without its last element.               *)
(***************************************************************************)
MaxVersions == 3      \* versions of the identity
MaxTime == 1          \* seconds that pass
MaxCommitLog == 4     \* commits written to the store
MaxConfigs == 2       \* values of the config key of the user identity

VersionNames == {"n1", "n2"}

NoKeys == <<>>

\* Version{Name: name, ...}: Login is "", Time is 0, Keys is nil and
\* commitHash is ""
NewVersion(name) ==
    [name |-> name, login |-> "", time |-> 0, keys |-> NoKeys,
     commitHash |-> NoHash]

\* The versions a caller hands to AddVersion.
VersionInputs ==
    {[name |-> "n1", login |-> "", time |-> 1, keys |-> <<"k1">>,
      commitHash |-> NoHash],
     [name |-> "", login |-> "l1", time |-> 0, keys |-> NoKeys,
      commitHash |-> NoHash]}

\* The blob of a version: its exported fields.
Payload(v) ==
    [name |-> v.name, login |-> v.login, time |-> v.time, keys |-> v.keys]

\* The version read back from a blob, tagged with its commit.
Tagged(data, hash) ==
    [name |-> data.name, login |-> data.login, time |-> data.time,
     keys |-> data.keys, commitHash |-> hash]

\* repo.StoreCommit(treeHash) and repo.StoreCommitWithParent(treeHash, parent)
\* at the time now, for the tree of the version v.
StoreCommit(v, parent, now) == Append(parent, <<Payload(v), now>>)

\* The body of Identity.Commit from the version k on.  The loop variable is a
\* copy of the version and nothing assigns commitHash.  failAt is the
\* iteration at which the store returns an error (0: none).
RECURSIVE CommitLoop(_, _, _, _, _, _, _)
CommitLoop(versions, k, lastCommit, id, log, now, failAt) ==
    IF k > Len(versions)
    THEN [err |-> "nil", lastCommit |-> lastCommit, id |-> id, log |-> log]
    ELSE IF versions[k].commitHash # NoHash
    THEN CommitLoop(versions, k + 1, versions[k].commitHash, id, log, now,
                    failAt)
    ELSE IF k = failAt
    THEN [err |-> "store error", lastCommit |-> lastCommit, id |-> id,
          log |-> log]
    ELSE LET commitHash == StoreCommit(versions[k], lastCommit, now)
         IN  CommitLoop(versions, k + 1, commitHash,
                        IF id = NoHash THEN commitHash ELSE id,
                        Append(log, commitHash), now, failAt)

IdentityInit ==
    /\ ident = NoIdentity
    /\ idStore = EmptyStore
    /\ SnapIdle /\ CreateIdle /\ CacheIdle /\ LockIdle /\ MergeIdle /\ JsonIdle /\ ReplicaIdle

identityFrame ==
    UNCHANGED <<repo, cacheFile, lockFile, opened, excerpts, bugs, snapVars,
                createVars, lockVars, mergeVars, jsonVars,
                replicaVars>>

\* NewIdentity(name, email)
NewIdentity ==
    /\ ident = NoIdentity
    /\ \E name \in VersionNames :
        /\ ident' = [id |-> NoHash, versions |-> <<NewVersion(name)>>]
        /\ last' = Ret("NewIdentity", NoId, name, "nil", {})
    /\ UNCHANGED idStore
    /\ identityFrame

\* Identity.AddVersion(version)
AddVersion ==
    /\ ident # NoIdentity
    /\ Len(ident.versions) < MaxVersions
    /\ \E version \in VersionInputs :
        /\ ident' = [ident EXCEPT !.versions = Append(@, version)]
        /\ last' = Ret("AddVersion", NoId, version, "nil", {})
    /\ UNCHANGED idStore
    /\ identityFrame

\* (IdentityCommitRefAlways: a variant that moves the ref whatever the writes
\* returned.)
IdentityCommitRefAlways ==
    /\ ident # NoIdentity
    /\ Len(idStore.commits) + Len(ident.versions) <= MaxCommitLog
    /\ \E failAt \in 0..Len(ident.versions) :
        LET r == CommitLoop(ident.versions, 1, NoHash, ident.id,
                            idStore.commits, idStore.now, failAt)
        IN  /\ ident' = [ident EXCEPT !.id = r.id]
            /\ idStore' =
                 [idStore EXCEPT
                    !.commits = r.log,
                    !.refs = MapPut(@, r.id, r.lastCommit)]
            /\ last' = Ret("Identity.Commit", r.id, <<>>, r.err, {})
    /\ identityFrame

\* Identity.Commit(repo)
IdentityCommit ==
    /\ ident # NoIdentity
    /\ Len(idStore.commits) + Len(ident.versions) <= MaxCommitLog
    /\ \E failAt \in 0..Len(ident.versions) :
        LET r == CommitLoop(ident.versions, 1, NoHash, ident.id,
                            idStore.commits, idStore.now, failAt)
        IN  /\ ident' = [ident EXCEPT !.id = r.id]
            /\ idStore' =
                 [idStore EXCEPT
                    !.commits = r.log,
                    !.refs = IF r.err = "nil"
                             THEN MapPut(@, r.id, r.lastCommit) ELSE @]
            /\ last' = Ret("Identity.Commit", r.id, <<>>, r.err, {})
    /\ identityFrame

\* Identity.Load(repo): the versions are replaced by those of the commits of
\* the ref, each tagged with its commit.
IdentityLoad ==
    /\ ident.id # NoHash
    /\ IF ident.id \in DOMAIN idStore.refs
       THEN LET tip == idStore.refs[ident.id]
            IN  /\ ident' = [ident EXCEPT !.versions =
                                [k \in 1..Len(tip) |->
                                    Tagged(tip[k][1], SubSeq(tip, 1, k))]]
                /\ last' = Ret("Identity.Load", ident.id, <<>>, "nil", {})
       ELSE /\ UNCHANGED ident
            /\ last' = Ret("Identity.Load", ident.id, <<>>,
                           "ErrIdentityNotExist", {})
    /\ UNCHANGED idStore
    /\ identityFrame

\* Version.Validate: a version needs a name or a login.
VersionValidate(v) ==
    IF v.name = "" /\ v.login = "" THEN "invalid version" ELSE "nil"

\* The loop of Identity.Validate from the version k on.
RECURSIVE ValidateFrom(_, _, _)
ValidateFrom(versions, k, lastTime) ==
    IF k > Len(versions) THEN "nil"
    ELSE IF VersionValidate(versions[k]) # "nil"
    THEN VersionValidate(versions[k])
    ELSE IF versions[k].time < lastTime THEN "non-chronological version"
    ELSE ValidateFrom(versions, k + 1, versions[k].time)

\* Identity.Validate()
IdentityValidate ==
    /\ ident # NoIdentity
    /\ last' = Ret("Identity.Validate", ident.id, <<>>,
                   ValidateFrom(ident.versions, 1, 0), {})
    /\ UNCHANGED <<ident, idStore>>
    /\ identityFrame

\* SetIdentity(repo, identity): identity.Id() panics without an id.
SetIdentity ==
    /\ ident.id # NoHash
    /\ idStore' = [idStore EXCEPT !.configs = <<ident.id>>]
    /\ last' = Ret("SetIdentity", ident.id, <<>>, "nil", {})
    /\ UNCHANGED ident
    /\ identityFrame

\* GetIdentity(repo): Read(repo, id) of the only value of the config key.
\* The versions of the identity it returns are kept in last.arg.
GetIdentity ==
    /\ LET configs == idStore.configs
       IN  IF Len(configs) = 0
           THEN last' = Ret("GetIdentity", NoId, <<>>, "no identity set", {})
           ELSE IF Len(configs) > 1
           THEN last' = Ret("GetIdentity", NoId, <<>>,
                            "multiple identity config exist", {})
           ELSE LET id == configs[1]
                IN  IF id \in DOMAIN idStore.refs
                    THEN LET tip == idStore.refs[id]
                         IN  last' = Ret("GetIdentity", id,
                                         [k \in 1..Len(tip) |->
                                            Tagged(tip[k][1],
                                                   SubSeq(tip, 1, k))],
                                         "nil", {})
                    ELSE last' = Ret("GetIdentity", NoId, <<>>,
                                     "ErrIdentityNotExist", {})
    /\ UNCHANGED <<ident, idStore>>
    /\ identityFrame

\* The id of an identity this store has no ref of.
UnknownIdentity == <<<<Payload(NewVersion("n0")), 0>>>>

\* Somebody adds a value to the config key by hand.
ConfigAdd ==
    /\ Len(idStore.configs) < MaxConfigs
    /\ \E id \in DOMAIN idStore.refs \cup {UnknownIdentity} :
          idStore' = [idStore EXCEPT !.configs = Append(@, id)]
    /\ last' = Ret("ConfigAdd", NoId, <<>>, "nil", {})
    /\ UNCHANGED ident
    /\ identityFrame

\* A second passes.
Tick ==
    /\ idStore.now < MaxTime
    /\ idStore' = [idStore EXCEPT !.now = @ + 1]
    /\ last' = Ret("Tick", NoId, <<>>, "nil", {})
    /\ UNCHANGED ident
    /\ identityFrame

IdentityNext ==
    \/ NewIdentity
    \/ AddVersion
    \/ IdentityCommit
    \/ IdentityLoad
    \/ IdentityValidate
    \/ SetIdentity
    \/ GetIdentity
    \/ ConfigAdd
    \/ Tick

SpecIdentity == IdentityInit /\ [][IdentityNext]_vars

(***************************************************************************)
(* SpecIdentityView: the read-only methods of an Identity that was read    *)
(* from a store, whatever wrote its versions there.                        *)
(***************************************************************************)
MaxViewVersions == 3    \* versions of the identity that is looked at
MaxLamport == 3         \* largest logical time asked for

ViewVersions ==
    {[name |-> "n1", login |-> "", time |-> 0, keys |-> <<"k1">>],
     [name |-> "", login |-> "l1", time |-> 1, keys |-> <<"k2">>],
     [name |-> "n2", login |-> "l1", time |-> 2, keys |-> NoKeys],
     [name |-> "", login |-> "", time |-> 1, keys |-> <<"k3">>]}

RECURSIVE ViewChains(_)
ViewChains(n) ==
    IF n = 0 THEN {<<>>}
    ELSE ViewChains(n - 1) \cup
         {Append(c, v) : c \in {d \in ViewChains(n - 1) : Len(d) = n - 1},
                         v \in ViewVersions}

\* The identity Read returns for the ref whose commits hold the blobs of chain.
ReadIdentity(chain) ==
    LET hash(k) == [j \in 1..k |-> <<chain[j], 0>>]
    IN  [id |-> hash(1),
         versions |-> [k \in 1..Len(chain) |-> Tagged(chain[k], hash(k))]]

ViewInit ==
    /\ \E chain \in ViewChains(MaxViewVersions) :
          /\ chain # <<>>
          /\ ident = ReadIdentity(chain)
    /\ idStore = EmptyStore
    /\ SnapIdle /\ CreateIdle /\ CacheIdle /\ LockIdle /\ MergeIdle /\ JsonIdle /\ ReplicaIdle

\* Identity.LastVersion: panics without a version.  (FirstVersion: a variant
\* that reads the other end of the chain.)
FirstVersion(i) == i.versions[1]
LastVersion(i) == i.versions[Len(i.versions)]

\* `v.Time > time`: the version is later than the time asked for.
\* (LaterOrEqual: a variant that also stops at a version of that time.)
LaterOrEqual(v, time) == v.time >= time
Later(v, time) == v.time > time

\* The loop of Identity.ValidKeysAtTime from the version k on.
RECURSIVE ValidKeysFrom(_, _, _, _)
ValidKeysFrom(versions, k, time, result) ==
    IF k > Len(versions) THEN result
    ELSE IF Later(versions[k], time) THEN result
    ELSE ValidKeysFrom(versions, k + 1, time, versions[k].keys)

\* Identity.ValidKeysAtTime(time)
ValidKeysAtTime ==
    /\ \E time \in 0..MaxLamport :
          last' = Ret("ValidKeysAtTime", ident.id, time, "nil",
                      ValidKeysFrom(ident.versions, 1, time, NoKeys))
    /\ UNCHANGED <<ident, idStore>>
    /\ identityFrame

\* Identity.Name() and Identity.Login()
Name(i) == LastVersion(i).name
Login(i) == LastVersion(i).login

\* The switch of Identity.DisplayName; fmt.Sprintf("%s (%s)", ...) in its
\* third case, the panic after it.
IdentityDisplayName(i) ==
    IF Name(i) = "" /\ Login(i) # "" THEN [out |-> Login(i), err |-> "nil"]
    ELSE IF Name(i) # "" /\ Login(i) = ""
    THEN [out |-> Name(i), err |-> "nil"]
    ELSE IF Name(i) # "" /\ Login(i) # ""
    THEN [out |-> Name(i) \o " (" \o Login(i) \o ")", err |-> "nil"]
    ELSE [out |-> "", err |-> "panic: invalid person data"]

\* Identity.DisplayName()
DisplayName ==
    /\ LET r == IdentityDisplayName(ident)
       IN  last' = Ret("Identity.DisplayName", ident.id, r.out, r.err, {})
    /\ UNCHANGED <<ident, idStore>>
    /\ identityFrame

\* NewIdentityExcerpt(i)
NewIdentityExcerpt(i) == [Id |-> i.id, Name |-> Name(i), Login |-> Login(i)]

\* The switch of IdentityExcerpt.DisplayName.
excerptDisplayName(e) ==
    IF e.Name = "" /\ e.Login # "" THEN [out |-> e.Login, err |-> "nil"]
    ELSE IF e.Name # "" /\ e.Login = "" THEN [out |-> e.Name, err |-> "nil"]
    ELSE IF e.Name # "" /\ e.Login # ""
    THEN [out |-> e.Name \o " (" \o e.Login \o ")", err |-> "nil"]
    ELSE [out |-> "", err |-> "panic: invalid person data"]

\* NewIdentityExcerpt(i).DisplayName()
ExcerptDisplayName ==
    /\ LET e == NewIdentityExcerpt(ident)
           r == excerptDisplayName(e)
       IN  last' = Ret("IdentityExcerpt.DisplayName", e.Id, r.out, r.err, {})
    /\ UNCHANGED <<ident, idStore>>
    /\ identityFrame

\* Identity.Validate() of the identity that was read
ViewValidate ==
    /\ last' = Ret("Identity.Validate", ident.id, <<>>,
                   ValidateFrom(ident.versions, 1, 0), {})
    /\ UNCHANGED <<ident, idStore>>
    /\ identityFrame

ViewNext ==
    \/ ValidKeysAtTime
    \/ DisplayName
    \/ ExcerptDisplayName
    \/ ViewValidate

SpecIdentityView == ViewInit /\ [][ViewNext]_vars

(***************************************************************************)
(* SpecMerge: an opened RepoCache whose owner calls Fetch and MergeAll.    *)
(* MergeAll starts a background task; the task merges one remote-tracking  *)
(* ref after the other, hands each result to the reader of the stream,     *)
(* replaces the excerpt of a new or updated bug, and writes the cache file *)
(* at the end.  The owner may query the excerpts at any moment.            *)
(*                                                                         *)
(* A ref is the sequence of the packs of its commits; a commit is known by *)
(* the chain that ends at it.  A merge commit is the last pack of the      *)
(* local chain; its second parent, the remote head it merged, is kept in   *)
(* merge.absorbed.                                                         *)
(***************************************************************************)
MaxFetches == 2     \* fetches that bring something
MaxChain == 3       \* commits of a remote-tracking ref

LocalCreate == NewCreateOp("A", 1, <<"a">>, <<"a">>, NoFiles)
LocalComment == NewAddCommentOp("A", 2, <<"a">>, NoFiles)

\* What the replica holds when the cache is opened.
LocalStores ==
    {EmptyMap,
     MapPut(EmptyMap, CommitHash(<<LocalCreate>>), <<<<LocalCreate>>>>),
     MapPut(EmptyMap, CommitHash(<<LocalCreate>>),
            <<<<LocalCreate>>, <<LocalComment>>>>)}

\* What the other replica made: a bug of its own, and packs on top of a bug.
RemoteCreate == NewCreateOp("B", 1, <<"b">>, <<"a">>, NoFiles)
RemotePacks ==
    {<<NewAddCommentOp("B", 3, <<"b">>, NoFiles)>>,
     <<NewSetStatusOp("B", 4, "closed")>>,
     <<NewCreateOp("B", 3, <<"b">>, <<"b">>, NoFiles)>>}

MergeInit ==
    /\ repo \in LocalStores
    /\ excerpts = buildCache(repo)
    /\ cacheFile = [state |-> "ok", version |-> formatVersion,
                    excerpts |-> buildCache(repo)]
    /\ lockFile = "self"
    /\ opened = TRUE
    /\ bugs = EmptyMap
    /\ last = NoCall
    /\ remote = EmptyMap
    /\ merge = NoMerge
    /\ SnapIdle /\ CreateIdle /\ LockIdle /\ IdIdle /\ JsonIdle /\ ReplicaIdle

mergeFrame ==
    UNCHANGED <<snapVars, createVars, lockVars, idVars, jsonVars, replicaVars>>

\* The chains a fetch can bring for a ref the replica does not track yet: the
\* bug of the other replica, or a bug of this replica as the other one has
\* it, with at most one pack on top.
FetchedChains ==
    {<<<<RemoteCreate>>>>} \cup
    UNION {{SubSeq(repo[id], 1, k) \o extra :
               k \in 1..Len(repo[id]),
               extra \in {<<>>} \cup {<<p>> : p \in RemotePacks}} :
           id \in DOMAIN repo}

\* RepoCache.Fetch(remote): bug.Fetch moves the remote-tracking refs; the
\* local bugs stay.  The other replica only adds commits, and no operation
\* twice.
Fetch ==
    /\ opened
    /\ merge.pc = "idle"
    /\ merge.fetches < MaxFetches
    /\ \/ \E chain \in FetchedChains :
            /\ CommitHash(chain[1]) \notin DOMAIN remote
            /\ Len(chain) <= MaxChain
            /\ remote' = MapPut(remote, CommitHash(chain[1]), chain)
       \/ \E id \in DOMAIN remote, p \in RemotePacks :
            /\ Len(remote[id]) < MaxChain
            /\ \A k \in DOMAIN remote[id] : remote[id][k] # p
            /\ remote' = [remote EXCEPT ![id] = Append(@, p)]
    /\ merge' = [merge EXCEPT !.fetches = @ + 1]
    /\ last' = Ret("Fetch", NoId, <<>>, "nil", {})
    /\ UNCHANGED <<repo, cacheFile, lockFile, opened, excerpts, bugs>>
    /\ mergeFrame

\* RepoCache.MergeAll(remote): the channel is made and the task started.
MergeAll ==
    /\ opened
    /\ merge.pc = "idle"
    /\ merge' = [merge EXCEPT !.pc = "merging", !.todo = DOMAIN remote,
                              !.emitted = <<>>]
    /\ last' = Ret("MergeAll", NoId, <<>>, "nil", {})
    /\ UNCHANGED <<repo, cacheFile, lockFile, opened, excerpts, bugs, remote>>
    /\ mergeFrame

\* The remote heads merged into the local ref of id by a merge commit.
Absorbed(id) ==
    IF id \in DOMAIN merge.absorbed THEN merge.absorbed[id] ELSE {}

\* The commit `head` is an ancestor of (or is) the head of `chain`, whose
\* merge commits have the second parents `merged`.
\* (IsAncestorFirstParent: a variant that follows first parents only.)
IsAncestorFirstParent(head, chain, merged) == IsPrefix(head, chain)
IsAncestor(head, chain, merged) ==
    \/ IsPrefix(head, chain)
    \/ \E m \in merged : IsPrefix(head, m)

\* How a remote head relates to the local one.
\* (MergeCaseNoFastForward: a variant that takes a local head behind the
\* remote one for a diverged one.)
MergeCaseNoFastForward(local, merged, rem) ==
    IF IsAncestor(rem, local, merged) THEN "nothing"
    ELSE "three-way"

MergeCase(local, merged, rem) ==
    IF IsAncestor(rem, local, merged) THEN "nothing"
    ELSE IF IsAncestor(local, rem, {}) THEN "fast-forward"
    ELSE "three-way"

Hashes(seq) == {hashOperation(seq[i]) : i \in DOMAIN seq}

\* The operations of seq whose hash is not in the set known, in their order.
RECURSIVE Unknown(_, _)
Unknown(seq, known) ==
    IF seq = <<>> THEN <<>>
    ELSE IF hashOperation(Head(seq)) \in known THEN Unknown(Tail(seq), known)
    ELSE <<Head(seq)>> \o Unknown(Tail(seq), known)

\* The three-way merge: the operations of the merged bug, or a conflict.
\* (ThreeWayMergeRemoteFirst: a variant that puts the operations only the
\* remote has before those only the local bug has.)
ThreeWayMergeRemoteFirst(localOps, remoteOps) ==
    LET remoteOnly == Unknown(remoteOps, Hashes(localOps))
        localOnly == Unknown(localOps, Hashes(remoteOps))
        common == Unknown(localOps, Hashes(localOnly))
    IN  IF \E i \in DOMAIN remoteOnly : remoteOnly[i].type = "CREATE"
        THEN [err |-> "conflict", pack |-> <<>>, ops |-> localOps]
        ELSE [err |-> "nil", pack |-> remoteOnly,
              ops |-> common \o remoteOnly \o localOnly]

ThreeWayMerge(localOps, remoteOps) ==
    LET remoteOnly == Unknown(remoteOps, Hashes(localOps))
    IN  IF \E i \in DOMAIN remoteOnly : remoteOnly[i].type = "CREATE"
        THEN [err |-> "conflict", pack |-> <<>>, ops |-> localOps]
        ELSE [err |-> "nil", pack |-> remoteOnly,
              ops |-> localOps \o remoteOnly]

MergeResult(id, status, err, opSeq) ==
    [id |-> id, status |-> status, err |-> err, ops |-> opSeq]

\* bug.MergeAll, one remote-tracking ref: the local ref is made, kept, moved
\* forward or given a merge commit, and the result is offered on the stream.
MergeOne ==
    /\ opened
    /\ merge.pc = "merging"
    /\ merge.chan = NoResult /\ merge.pending = NoResult /\ ~merge.writing
    /\ \E id \in merge.todo :
        LET rem == remote[id]
            send(status, err, opSeq, merged) ==
                merge' = [merge EXCEPT
                            !.todo = @ \ {id},
                            !.chan = MergeResult(id, status, err, opSeq),
                            !.absorbed = MapPut(@, id, merged)]
        IN  IF id \notin DOMAIN repo
            THEN /\ repo' = MapPut(repo, id, rem)
                 /\ send("new", "nil", Flatten(rem), {})
            ELSE LET local == repo[id]
                     case == MergeCase(local, Absorbed(id), rem)
                     m == ThreeWayMerge(Flatten(local), Flatten(rem))
                 IN  IF case = "nothing"
                     THEN /\ UNCHANGED repo
                          /\ send("nothing", "nil", Flatten(local),
                                  Absorbed(id))
                     ELSE IF case = "fast-forward"
                     THEN /\ repo' = [repo EXCEPT ![id] = rem]
                          /\ send("updated", "nil", Flatten(rem),
                                  Absorbed(id))
                     ELSE IF m.err # "nil"
                     THEN /\ UNCHANGED repo
                          /\ send("invalid", m.err, Flatten(local),
                                  Absorbed(id))
                     ELSE /\ repo' = [repo EXCEPT ![id] =
                                        Append(local, m.pack)]
                          /\ send("updated", "nil", m.ops,
                                  Absorbed(id) \cup {rem})
    /\ last' = Ret("bug.MergeAll", NoId, <<>>, "nil", {})
    /\ UNCHANGED <<cacheFile, lockFile, opened, excerpts, bugs, remote>>
    /\ mergeFrame

\* `out <- result` meets `for merge := range`: the reader has the result and
\* the task goes on to the switch on its status.
Receive ==
    /\ opened
    /\ merge.chan # NoResult
    /\ LET result == merge.chan
       IN  /\ merge' = [merge EXCEPT
                          !.chan = NoResult,
                          !.emitted = Append(@, result.id),
                          !.pending =
                              IF result.err = "nil" /\
                                 result.status \in {"new", "updated"}
                              THEN result ELSE NoResult,
                          !.done = IF result.err = "nil"
                                   THEN @ \cup {<<result.id,
                                                  remote[result.id]>>}
                                   ELSE @]
           /\ last' = Ret("MergeResult", result.id, result.status,
                          result.err, {})
    /\ UNCHANGED <<repo, cacheFile, lockFile, opened, excerpts, bugs, remote>>
    /\ mergeFrame

\* c.excerpts after `c.excerpts[id] = NewBugExcerpt(b, &snap)` for the result.
ExcerptsWith(result) ==
    MapPut(excerpts, result.id,
           NewBugExcerpt(result.id, result.ops, Compile(result.ops)))

\* The task starts the assignment to c.excerpts[id] ...
ExcerptBegin ==
    /\ opened
    /\ merge.pending # NoResult /\ ~merge.writing
    /\ merge' = [merge EXCEPT !.writing = TRUE]
    /\ last' = Ret("task: excerpt", merge.pending.id, <<>>, "nil", {})
    /\ UNCHANGED <<repo, cacheFile, lockFile, opened, excerpts, bugs, remote>>
    /\ mergeFrame

\* ... and ends it.
ExcerptEnd ==
    /\ opened
    /\ merge.writing
    /\ excerpts' = ExcerptsWith(merge.pending)
    /\ merge' = [merge EXCEPT !.writing = FALSE, !.pending = NoResult]
    /\ last' = Ret("task: excerpt done", merge.pending.id, <<>>, "nil", {})
    /\ UNCHANGED <<repo, cacheFile, lockFile, opened, bugs, remote>>
    /\ mergeFrame

\* The process dies and the task with it.
MergeDies ==
    /\ Dies
    /\ merge' = [merge EXCEPT !.pc = "idle", !.todo = {}, !.chan = NoResult,
                              !.pending = NoResult, !.writing = FALSE]

\* The results are through: c.write(), a panic if it fails, close(out).
Finish ==
    /\ opened
    /\ merge.pc = "merging"
    /\ merge.todo = {}
    /\ merge.chan = NoResult /\ merge.pending = NoResult /\ ~merge.writing
    /\ \E w \in WriteOutcomes :
        /\ cacheFile' = write(excerpts, cacheFile, w)
        /\ IF w = "ok"
           THEN /\ merge' = [merge EXCEPT !.pc = "idle"]
                /\ last' = Ret("MergeAll done", NoId, <<>>, "nil", {})
                /\ UNCHANGED <<lockFile, opened, excerpts, bugs>>
           ELSE /\ MergeDies
                /\ last' = Ret("MergeAll done", NoId, <<>>, "panic", {})
    /\ UNCHANGED <<repo, remote>>
    /\ mergeFrame

\* The ids QueryBugs gives for "status:open", read from the map exc.
OpenIds(exc) == {id \in DOMAIN exc : exc[id].status = "open"}

\* The owner calls QueryBugs.  While the task is assigning to the map the
\* read races with the write: it sees the map before or after it, or the
\* runtime stops the process (concurrent map read and map write).
OwnerQuery ==
    /\ opened
    /\ IF merge.writing
       THEN \/ /\ \E exc \in {excerpts, ExcerptsWith(merge.pending)} :
                     last' = Ret("QueryBugs", NoId, <<>>, "nil", OpenIds(exc))
               /\ UNCHANGED <<lockFile, opened, excerpts, bugs, merge>>
            \/ /\ MergeDies
               /\ last' = Ret("QueryBugs", NoId, <<>>, "fatal error", {})
       ELSE /\ last' = Ret("QueryBugs", NoId, <<>>, "nil", OpenIds(excerpts))
            /\ UNCHANGED <<lockFile, opened, excerpts, bugs, merge>>
    /\ UNCHANGED <<repo, cacheFile, remote>>
    /\ mergeFrame

\* The owner calls ResolveBug between two runs of MergeAll.
OwnerResolveBug ==
    /\ opened
    /\ merge.pc = "idle"
    /\ \E id \in DOMAIN repo : ResolveBug("ResolveBug", <<>>, id)
    /\ UNCHANGED <<repo, cacheFile, lockFile, opened, excerpts, remote, merge>>
    /\ mergeFrame

MergeNext ==
    \/ Fetch
    \/ OwnerResolveBug
    \/ MergeAll
    \/ MergeOne
    \/ Receive
    \/ ExcerptBegin
    \/ ExcerptEnd
    \/ Finish
    \/ OwnerQuery

SpecMerge == MergeInit /\ [][MergeNext]_vars

\* The task is a goroutine of its own and the reader keeps reading: each of
\* their steps is taken once it stays possible.
SpecMergeFair ==
    /\ SpecMerge
    /\ WF_vars(MergeOne) /\ WF_vars(Receive)
    /\ WF_vars(ExcerptBegin) /\ WF_vars(ExcerptEnd) /\ WF_vars(Finish)

(***************************************************************************)
(* Properties of the snapshot compiler (SpecSnapshot)                      *)
(***************************************************************************)
\* The step applies one more operation.
Applies(opType) ==
    /\ Len(ops') = Len(ops) + 1
    /\ ops'[Len(ops')].type = opType

\* The operation that produced timeline item i: the i-th operation that is
\* not an edit_comment (every other variant adds exactly one item).
RECURSIVE NthItemOp(_, _, _)
NthItemOp(seq, i, from) ==
    IF from > Len(seq) THEN 0
    ELSE IF seq[from].type # "EDIT_COMMENT"
         THEN (IF i = 1 THEN from ELSE NthItemOp(seq, i - 1, from + 1))
         ELSE NthItemOp(seq, i, from + 1)

\* The operations applied to the snapshot: all of ops, but for one that panicked.
AppliedOps == IF panicked THEN SubSeq(ops, 1, Len(ops) - 1) ELSE ops

HashUnique(seq) ==
    \A i, j \in 1..Len(seq) :
        hashOperation(seq[i]) = hashOperation(seq[j]) => i = j

\* C1, first half: an edit_comment whose target is the hash of a create or
\* add_comment already applied appends exactly one revision (the edit's message)
\* to the history of the timeline item with that hash, keeps the length of the
\* timeline and leaves every other timeline item as it was.
C1_EditStep ==
    (/\ Applies("EDIT_COMMENT")
     /\ \E k \in 1..Len(ops) :
            /\ ops[k].type \in {"CREATE", "ADD_COMMENT"}
            /\ hashOperation(ops[k]) = ops'[Len(ops')].target)
    => LET e == ops'[Len(ops')]
           tl == snapshot.timeline
           i == CHOOSE n \in 1..Len(tl) :
                    /\ tl[n].hash = e.target
                    /\ \A m \in 1..(n - 1) : tl[m].hash # e.target
       IN  /\ ~panicked'
           /\ Len(snapshot'.timeline) = Len(tl)
           /\ snapshot'.timeline[i].history =
                 Append(tl[i].history,
                        [message |-> e.message, unixTime |-> e.unixTime])
           /\ snapshot'.timeline[i].hash = tl[i].hash
           /\ \A j \in 1..Len(tl) : j # i => snapshot'.timeline[j] = tl[j]

\* C1, second half: the history of a create or comment item holds the original
\* and one revision per edit_comment that targeted it since.
C1_HistoryLength ==
    \A i \in 1..Len(snapshot.timeline) :
        LET it == snapshot.timeline[i]
            first == \A m \in 1..(i - 1) : snapshot.timeline[m].hash # it.hash
            pos == NthItemOp(AppliedOps, i, 1)
            edits == {k \in (pos + 1)..Len(AppliedOps) :
                        /\ AppliedOps[k].type = "EDIT_COMMENT"
                        /\ AppliedOps[k].target = it.hash}
        IN  it.type \in {"CreateTimelineItem", "AddCommentTimelineItem"}
            => Len(it.history) = 1 + (IF first THEN Cardinality(edits) ELSE 0)

\* C1: an edit_comment that targets an applied create or add_comment appends
\* exactly one revision to that item's edit history, so that the history length
\* is 1 + the number of edits that targeted the item; the timeline keeps its
\* length and no other item's history changes.
C1_EditAppendsOneRevision == [][C1_EditStep]_vars /\ []C1_HistoryLength

\* C1 witness: an edit has been applied to a comment item, whose history now
\* holds two entries, next to a create item with one.
C1_Witness ==
    /\ ~panicked
    /\ Len(ops) = 3
    /\ ops[3].type = "EDIT_COMMENT"
    /\ ops[2].type = "ADD_COMMENT"
    /\ ops[3].target = hashOperation(ops[2])
    /\ Len(snapshot.timeline) = 2
    /\ Len(snapshot.timeline[2].history) = 2
    /\ Len(snapshot.timeline[1].history) = 1

\* The index in Comments of the comment made by operation k: the create and
\* add_comment operations up to and including k.
CommentOf(seq, k) ==
    Cardinality({j \in 1..k : seq[j].type \in {"CREATE", "ADD_COMMENT"}})

\* C2: with at least two comments after the create (other operations may lie
\* between them) and all hashes distinct, an edit_comment with target hash(ck)
\* overwrites message and files of the comment made by ck and leaves every
\* other comment as it was.
C2_EditStep ==
    (/\ Applies("EDIT_COMMENT")
     /\ HashUnique(ops)
     /\ Cardinality({j \in 1..Len(ops) : ops[j].type = "ADD_COMMENT"}) >= 2
     /\ \A j \in 1..Len(ops) : ops[j].type # "EDIT_COMMENT")
    => \A k \in 1..Len(ops) :
         (/\ ops[k].type = "ADD_COMMENT"
          /\ hashOperation(ops[k]) = ops'[Len(ops')].target)
         => LET e == ops'[Len(ops')]
                c == CommentOf(ops, k)
            IN  /\ ~panicked'
                /\ Len(snapshot'.comments) = Len(snapshot.comments)
                /\ snapshot'.comments[c].message = e.message
                /\ snapshot'.comments[c].files = e.files
                /\ \A j \in 1..Len(snapshot.comments) :
                      j # c => snapshot'.comments[j] = snapshot.comments[j]

C2_EditOverwritesTargetComment == [][C2_EditStep]_vars

\* C3: an edit_comment whose target is the hash of no timeline item leaves the
\* whole snapshot as it was and does not fail.
C3_EditStep ==
    (/\ Applies("EDIT_COMMENT")
     /\ \A n \in 1..Len(snapshot.timeline) :
            snapshot.timeline[n].hash # ops'[Len(ops')].target)
    => snapshot' = snapshot /\ ~panicked'

C3_UnknownTargetIsNoOp == [][C3_EditStep]_vars

\* C3 witness: the last operation is an edit whose target is no item of a
\* timeline that holds a create and a comment.
C3_Witness ==
    /\ ~panicked
    /\ Len(ops) = 3
    /\ ops[3].type = "EDIT_COMMENT"
    /\ ops[2].type = "ADD_COMMENT"
    /\ Len(snapshot.timeline) = 2
    /\ \A n \in 1..2 : snapshot.timeline[n].hash # ops[3].target
    /\ Len(snapshot.comments) = 2

\* C4: a bug of one create operation compiles to a snapshot with status open,
\* the operation's title and author, one comment with the operation's message
\* and a timeline of one create item.
C4_SingleCreateSnapshot ==
    (Len(ops) = 1 /\ ops[1].type = "CREATE")
    => /\ snapshot.status = "open"
       /\ snapshot.title = ops[1].title
       /\ snapshot.author = ops[1].author
       /\ Len(snapshot.comments) = 1
       /\ snapshot.comments[1].message = ops[1].message
       /\ Len(snapshot.timeline) = 1
       /\ snapshot.timeline[1].type = "CreateTimelineItem"
       /\ ~panicked

C4_Witness ==
    /\ Len(ops) = 1
    /\ ops[1].type = "CREATE"
    /\ snapshot.title = <<"b">>
    /\ snapshot.author = "B"
    /\ Len(snapshot.timeline) = 1

(***************************************************************************)
(* Properties of CreateWithFiles (SpecCreate)                              *)
(***************************************************************************)
Has(s, c) == \E i \in 1..Len(s) : s[i] = c

\* C5: an empty title, a title with a newline, a title with a non-printable
\* character and a message with a non-printable character are rejected, and
\* then CreateWithFiles returns an error and no bug; an empty message with a
\* printable single-line title is accepted, the bug holding the create alone.
C5_CreateValidation ==
    cOut.called =>
        /\ (\/ cIn.title = <<>>
            \/ Has(cIn.title, "nl")
            \/ Has(cIn.title, "ctl")
            \/ Has(cIn.message, "ctl"))
           => (cOut.err # "nil" /\ cOut.bug = NilBug)
        /\ (/\ cIn.message = <<>>
            /\ cIn.title # <<>>
            /\ \A i \in 1..Len(cIn.title) : cIn.title[i] \in {"a", "b"})
           => /\ cOut.err = "nil"
              /\ Len(cOut.bug.ops) = 1
              /\ cOut.bug.ops[1].type = "CREATE"
              /\ cOut.bug.ops[1].title = cIn.title
              /\ cOut.bug.ops[1].message = <<>>

\* C5 witness: a title with an embedded newline was rejected.
C5_Witness ==
    /\ cOut.called
    /\ cIn.title = <<"a", "nl">>
    /\ cIn.message = <<>>
    /\ cOut.err # "nil"
    /\ cOut.bug = NilBug

(***************************************************************************)
(* Properties of the repo cache (Spec)                                     *)
(***************************************************************************)
MutatorCalls ==
    {"AddCommentRaw", "EditCommentRaw", "SetTitleRaw", "OpenRaw", "CloseRaw",
     "ChangeLabelsRaw"}

\* The arguments of the call r make an operation that fails validation.
InvalidCall(r) ==
    \/ r.op = "AddCommentRaw" /\ Has(r.arg.message, "ctl")
    \/ r.op = "EditCommentRaw"
         /\ (r.arg.target \in InvalidHashes \/ Has(r.arg.message, "ctl"))
    \/ r.op = "SetTitleRaw"
         /\ (r.arg.title = <<>> \/ Has(r.arg.title, "nl")
                \/ Has(r.arg.title, "ctl"))

\* C6: a BugCache mutator called with an operation that fails validation
\* returns the error, appends no operation to the bug, leaves the bug's
\* snapshot and its excerpt as they were, and does not write the cache file.
C6_InvalidStep ==
    InvalidCall(last') =>
        /\ last'.err # "nil"
        /\ last'.id \in DOMAIN bugs
        /\ bugs'[last'.id].ops = bugs[last'.id].ops
        /\ bugs'[last'.id].snap = bugs[last'.id].snap
        /\ excerpts' = excerpts
        /\ cacheFile' = cacheFile
        /\ repo' = repo

C6_InvalidMutatorChangesNothing == [][C6_InvalidStep]_vars

\* C6 witness: EditCommentRaw with a target that is no hash was refused on a
\* bug in memory.
C6_Witness ==
    /\ last.op = "EditCommentRaw"
    /\ last.arg.target = <<"zz">>
    /\ last.err = "target hash is invalid"
    /\ last.id \in DOMAIN bugs
    /\ Len(bugs[last.id].ops) = 1

CreateFirstOnly(seq) ==
    /\ seq # <<>>
    /\ seq[1].type = "CREATE"
    /\ \A i \in 2..Len(seq) : seq[i].type # "CREATE"

\* C7: of every bug, in memory and in the store, the first operation is a
\* create and no later operation is a create.
C7_CreateIsFirstAndOnly ==
    /\ \A id \in DOMAIN bugs : CreateFirstOnly(bugs[id].ops)
    /\ \A id \in DOMAIN repo : CreateFirstOnly(Flatten(repo[id]))

\* C7 witness: a bug made by NewBugRaw was changed by a mutator and committed.
C7_Witness ==
    /\ last.op = "Commit"
    /\ last.err = "nil"
    /\ Len(repo[last.id]) = 2
    /\ Len(bugs[last.id].ops) >= 2

\* C8: after a successful NewBugRaw or mutator the excerpt of the bug is the
\* one computed from the bug's current snapshot, and the excerpt map of the
\* cache file is the one in memory.
C8_WriteThrough ==
    (last.op \in MutatorCalls \cup {"NewBugRaw"} /\ last.err = "nil") =>
        /\ last.id \in DOMAIN bugs
        /\ last.id \in DOMAIN excerpts
        /\ bugs[last.id].snap = Compile(bugs[last.id].ops)
        /\ excerpts[last.id] =
              NewBugExcerpt(last.id, bugs[last.id].ops, bugs[last.id].snap)
        /\ cacheFile.state = "ok"
        /\ cacheFile.excerpts = excerpts

\* C8 witness: SetTitleRaw succeeded on a bug created with another title.
C8_Witness ==
    /\ last.op = "SetTitleRaw"
    /\ last.err = "nil"
    /\ bugs[last.id].ops[1].title = <<"a">>
    /\ excerpts[last.id].title = <<"b">>
    /\ cacheFile.excerpts[last.id].title = <<"b">>

\* C9: NewRepoCache that got the lock and finds the cache file missing,
\* undecodable or of a format version other than 1 rebuilds the excerpts, one
\* per local bug under the bug's id, and writes them under format version 1;
\* it returns the error of a bug that cannot be read.  (The error of a write
\* that fails is returned as well.)
C9_RebuildStep ==
    (/\ last'.op = "NewRepoCache"
     /\ lockFile \in {"none", "stale"}
     /\ \/ cacheFile.state \in {"missing", "corrupt"}
        \/ cacheFile.version # 1)
    => \/ /\ last'.err = "nil"
          /\ DOMAIN excerpts' = DOMAIN repo
          /\ \A id \in DOMAIN repo :
                LET seq == Flatten(repo[id])
                IN  excerpts'[id] = NewBugExcerpt(id, seq, Compile(seq))
          /\ cacheFile' = [state |-> "ok", version |-> 1, excerpts |-> excerpts']
       \/ /\ last'.err = "read error"
          /\ repo # EmptyMap
          /\ ~opened'
          /\ cacheFile' = cacheFile
       \/ /\ last'.err = "io: write_fail"
          /\ ~opened'

C9_RebuildOnUnusableCacheFile == [][C9_RebuildStep]_vars

\* C9 witness: the excerpts of two local bugs were rebuilt and written.
C9_Witness ==
    /\ last.op = "NewRepoCache"
    /\ last.arg = "rebuilt"
    /\ last.err = "nil"
    /\ Cardinality(DOMAIN repo) = 2
    /\ Cardinality(DOMAIN excerpts) = 2
    /\ cacheFile.version = 1

HasPrefix(id, p) == \E k \in 0..Len(id) : SubSeq(id, 1, k) = p

\* C10: ResolveBugPrefix(p) returns the bug of the one known id with prefix
\* p (or the error of reading it from the store); with no such id it fails
\* with ErrBugNotExist, with two or more with ErrMultipleMatch listing each
\* of them, and in these two cases no bug is loaded.
C10_ResolveStep ==
    last'.op = "ResolveBugPrefix" =>
        LET m == {id \in DOMAIN excerpts : HasPrefix(id, last'.arg)}
        IN  /\ Cardinality(m) = 0 =>
                (last'.err = "ErrBugNotExist" /\ bugs' = bugs)
            /\ Cardinality(m) >= 2 =>
                /\ last'.err = "ErrMultipleMatch"
                /\ last'.matching = m
                /\ bugs' = bugs
            /\ Cardinality(m) = 1 =>
                \/ /\ last'.err = "nil"
                   /\ last'.id \in m
                   /\ last'.id \in DOMAIN bugs'
                   /\ bugs'[last'.id].ops = Flatten(repo[last'.id])
                         \/ last'.id \in DOMAIN bugs
                \/ /\ last'.err = "read error"
                   /\ bugs' = bugs

C10_ResolveBugPrefix == [][C10_ResolveStep]_vars

\* C10 witness: a prefix shared by the ids of two bugs was refused.
C10_Witness ==
    /\ last.op = "ResolveBugPrefix"
    /\ last.err = "ErrMultipleMatch"
    /\ Cardinality(last.matching) = 2
    /\ last.arg = <<"0">>

(***************************************************************************)
(* Properties of the lookups and queries (SpecQuery)                       *)
(***************************************************************************)
\* The create operation of a bug of the store.
CreateOpOf(id) == repo[id][1][1]

\* C11: ResolveBugCreateMetadata(k, v) returns a bug only if the bug's create
\* carries the key k with the value v, whatever v is; a bug whose create
\* metadata has no key k is no match; with no match the call fails with
\* ErrBugNotExist and with two or more with ErrMultipleMatch.
C11_CreateMetadataMatch ==
    last.op = "ResolveBugCreateMetadata" =>
        LET carrying == {id \in DOMAIN repo :
                            <<last.arg.key, last.arg.value>>
                                \in CreateOpOf(id).metadata}
        IN  /\ last.err = "nil" => last.id \in carrying
            /\ Cardinality(carrying) = 0 => last.err = "ErrBugNotExist"
            /\ Cardinality(carrying) >= 2 => last.err = "ErrMultipleMatch"

SeqToSet(seq) == {seq[i] : i \in DOMAIN seq}

\* C12: QueryBugs with a query returns the id of every excerpt the query
\* matches once, the id of no other excerpt, in ascending order of the key
\* (id, creation time, edit time), or in descending order when the query
\* asks for it.
C12_QueryResult ==
    (last.op = "QueryBugs" /\ last.arg # NilQuery) =>
        LET query == last.arg
            result == last.matching
            Before(a, b) ==
                CASE query.orderBy = "OrderById" -> StringLess(a, b)
                  [] query.orderBy = "OrderByCreation" ->
                        excerpts[a].createTime < excerpts[b].createTime
                  [] query.orderBy = "OrderByEdit" ->
                        excerpts[a].editTime < excerpts[b].editTime
        IN  /\ SeqToSet(result) =
                  {id \in DOMAIN excerpts :
                      /\ query.status # {} => excerpts[id].status \in query.status
                      /\ \A l \in query.label : l \in excerpts[id].labels}
            /\ Len(result) = Cardinality(SeqToSet(result))
            /\ \A i, j \in DOMAIN result :
                  i < j => IF query.orderDirection = "OrderDescending"
                           THEN ~Before(result[i], result[j])
                           ELSE ~Before(result[j], result[i])

\* C12 witness: two bugs came back, the one edited last first.
C12_Witness ==
    /\ last.op = "QueryBugs"
    /\ last.arg.orderBy = "OrderByEdit"
    /\ last.arg.orderDirection = "OrderDescending"
    /\ last.arg.status = {"open"}
    /\ Len(last.matching) = 2
    /\ excerpts[last.matching[1]].editTime > excerpts[last.matching[2]].editTime
    /\ StringLess(last.matching[2], last.matching[1])

\* C13: QueryBugs(nil) gives the result of the default query: the open bugs
\* alone, the one edited last first.
C13_NilQueryIsDefaultQuery ==
    (last.op = "QueryBugs" /\ last.arg = NilQuery) =>
        LET result == last.matching
        IN  /\ SeqToSet(result) =
                  {id \in DOMAIN excerpts : excerpts[id].status = "open"}
            /\ Len(result) = Cardinality(SeqToSet(result))
            /\ \A i, j \in DOMAIN result :
                  i < j => excerpts[result[i]].editTime
                              >= excerpts[result[j]].editTime

(***************************************************************************)
(* Properties of the lock file (SpecLock, Spec)                            *)
(***************************************************************************)
\* The processes that returned from NewRepoCache with the cache and have not
\* called Close.
Holders == {p \in Procs : proc[p].pc = "holding"}

\* C14: at most one live process holds a repo cache on the repository, in
\* every interleaving of two processes that call NewRepoCache.
C14_OneHolder == Cardinality(Holders) <= 1

\* p takes the step of repoIsAvailable.
ChecksLock(p) ==
    proc[p].pc = "start" /\ proc'[p].pc \in {"failed", "remove", "create"}

\* C15: with a lock file that holds the pid of a running process NewRepoCache
\* fails with an error; the lock file keeps its content, and the cache file
\* and the excerpts are not touched.
C15_LockedStep ==
    \A p \in Procs :
        (ChecksLock(p) /\ lockData \in {FormatPid(n) : n \in Running}) =>
            /\ proc'[p].pc = "failed"
            /\ proc'[p].err # "nil"
            /\ lockData' = lockData
            /\ cacheFile' = cacheFile
            /\ proc'[p].excerpts = proc[p].excerpts

C15_LiveLockRefuses == [][C15_LockedStep]_vars

\* C15 witness: p2 was refused while p1 held the cache.
C15_Witness ==
    /\ proc["p1"].pc = "holding"
    /\ lockData = FormatPid(Pid["p1"])
    /\ proc["p2"].pc = "failed"
    /\ proc["p2"].seen = FormatPid(Pid["p1"])
    /\ proc["p2"].err = "already locked"

\* C16: with a lock file that holds the pid (of fewer than ten digits) of a
\* process that is gone, the acquisition goes through: the file is removed
\* and, nobody interfering, written again with the pid of the acquiring
\* process; Close removes the lock file, and without a lock file an
\* acquisition goes through.
C16_StaleStep ==
    \A p \in Procs :
        /\ (/\ ChecksLock(p)
            /\ lockData \in {FormatPid(n) : n \in {99999, 3, 12} \ Running})
           => (proc'[p].pc = "remove" /\ proc'[p].err = "nil")
        /\ (proc[p].pc = "remove" /\ proc'[p].pc = "create")
           => lockData' = NoLockFile
        /\ (proc[p].pc = "write" /\ proc'[p].pc = "load" /\ proc[p].alone)
           => lockData' = FormatPid(Pid[p])
        /\ (proc[p].pc = "holding" /\ proc'[p].pc = "start")
           => lockData' = NoLockFile
        /\ (ChecksLock(p) /\ lockData = NoLockFile)
           => (proc'[p].pc = "create" /\ proc'[p].err = "nil")

C17_TenBytesAccepted ==
    \A p \in Procs :
        proc[p].err = "the lock file should be < 10 bytes"
            => Len(proc[p].seen) > 10

\* C18: when NewRepoCache returns an error after it wrote the lock file
\* (building or writing the cache failed), the lock file it wrote is gone.
C18_LockReleasedOnError ==
    (last.op = "NewRepoCache" /\ last.err \notin {"nil", "locked"})
        => lockFile # "self"

(***************************************************************************)
(* Properties of Identity.Commit (SpecIdentity)                            *)
(***************************************************************************)
\* Every version of the identity in memory is a commit of the identity's
\* ref, in order.
AllCommitted ==
    /\ ident.id \in DOMAIN idStore.refs
    /\ Len(idStore.refs[ident.id]) = Len(ident.versions)
    /\ \A k \in DOMAIN ident.versions :
          idStore.refs[ident.id][k][1] = Payload(ident.versions[k])

\* C19: a version that was committed is not written again: Commit on an
\* identity whose versions are all committed writes no commit to the store
\* and leaves the ref of the identity on the same commit.
C19_CommitStep ==
    (last'.op = "Identity.Commit" /\ AllCommitted) =>
        /\ idStore'.commits = idStore.commits
        /\ idStore'.refs = idStore.refs

C19_CommittedVersionsNotRewritten == [][C19_CommitStep]_vars

\* C20: the id of the identity is the hash of the root commit of the chain
\* its ref points to.
C20_IdIsRootCommit ==
    (ident.id # NoHash /\ ident.id \in DOMAIN idStore.refs) =>
        ident.id = SubSeq(idStore.refs[ident.id], 1, 1)

(***************************************************************************)
(* Properties of the versions of an identity (SpecIdentity,                *)
(* SpecIdentityView)                                                       *)
(***************************************************************************)
NonDecreasing(times) ==
    \A k \in 2..Len(times) : times[k - 1] <= times[k]

\* C21: along the chain of commits of every identity ref the logical times
\* of the versions never decrease.
C21_TimesNonDecreasing ==
    \A id \in DOMAIN idStore.refs :
        NonDecreasing([k \in 1..Len(idStore.refs[id]) |->
                          idStore.refs[id][k][1].time])

VersionsInOrder == NonDecreasing([k \in DOMAIN ident.versions |->
                                     ident.versions[k].time])

\* The versions whose logical time is at most t.
UpTo(t) == {k \in DOMAIN ident.versions : ident.versions[k].time <= t}

MaxOf(S) == CHOOSE k \in S : \A j \in S : j <= k

\* C22: when the times of the versions do not decrease, ValidKeysAtTime(t)
\* returns the keys of the last version whose time is at most t, and no key
\* when there is no such version.
C22_ValidKeysAtTime ==
    (last.op = "ValidKeysAtTime" /\ VersionsInOrder) =>
        last.matching = IF UpTo(last.arg) = {} THEN NoKeys
                        ELSE ident.versions[MaxOf(UpTo(last.arg))].keys

C22_Witness ==
    /\ last.op = "ValidKeysAtTime"
    /\ VersionsInOrder
    /\ Len(ident.versions) = 3
    /\ MaxOf(UpTo(last.arg) \cup {0}) = 2
    /\ ident.versions[1].keys # ident.versions[2].keys
    /\ ident.versions[3].keys # ident.versions[2].keys
    /\ last.matching = ident.versions[2].keys

\* C23: DisplayName reads the last version only: the name when there is no
\* login, the login when there is no name, "name (login)" when there are
\* both, a panic when there is neither; it never returns "", and the excerpt
\* of the identity answers as the identity does.
C23_DisplayName ==
    LET v == ident.versions[Len(ident.versions)]
    IN  /\ (last.op \in {"Identity.DisplayName",
                         "IdentityExcerpt.DisplayName"}) =>
              /\ (v.name # "" /\ v.login = "") =>
                    (last.err = "nil" /\ last.arg = v.name)
              /\ (v.name = "" /\ v.login # "") =>
                    (last.err = "nil" /\ last.arg = v.login)
              /\ (v.name # "" /\ v.login # "") =>
                    (last.err = "nil" /\
                     last.arg = v.name \o " (" \o v.login \o ")")
              /\ (v.name = "" /\ v.login = "") => last.err # "nil"
              /\ last.err = "nil" => last.arg # ""
        /\ ident # NoIdentity =>
              excerptDisplayName(NewIdentityExcerpt(ident)) =
                 IdentityDisplayName(ident)

C23_Witness ==
    /\ last.op = "IdentityExcerpt.DisplayName"
    /\ Len(ident.versions) = 3
    /\ ident.versions[1].name = "n1"
    /\ ident.versions[3].name = "n2"
    /\ last.arg = "n2 (l1)"

\* C24: GetIdentity fails when the config key holds no value or several;
\* with one value that is the id of an identity of the store it returns that
\* identity, read from the store; and right after SetIdentity(i) it returns
\* an identity whose id is i.Id().
C24_GetStep ==
    last'.op = "GetIdentity" =>
        /\ Len(idStore.configs) = 0 => last'.err # "nil"
        /\ Len(idStore.configs) >= 2 => last'.err # "nil"
        /\ (Len(idStore.configs) = 1 /\
            idStore.configs[1] \in DOMAIN idStore.refs) =>
              /\ last'.err = "nil"
              /\ last'.id = idStore.configs[1]
              /\ Len(last'.arg) = Len(idStore.refs[idStore.configs[1]])
        /\ last.op = "SetIdentity" =>
              (last'.err = "nil" /\ last'.id = ident.id)

C24_GetIdentity == [][C24_GetStep]_vars

\* C25: when a write of Identity.Commit fails, Commit returns the error and
\* the refs are what they were: the ref of the identity is on its previous
\* commit, or there is none.
C25_FailedStep ==
    (last'.op = "Identity.Commit" /\ last'.err # "nil") =>
        idStore'.refs = idStore.refs

C25_FailedCommitKeepsRef == [][C25_FailedStep]_vars

C25_Witness ==
    /\ last.op = "Identity.Commit"
    /\ last.err # "nil"
    /\ ident.id \in DOMAIN idStore.refs
    /\ Len(idStore.commits) > Len(idStore.refs[ident.id])

(***************************************************************************)
(* Properties of commit and reload (Spec)                                  *)
(***************************************************************************)
\* C30: whenever a bug made and changed through the cache is committed, the
\* bug read back from its ref compiles to the snapshot its operations
\* compiled to before the commit.
C30_CommitStep ==
    (last'.op \in {"Commit", "NewBugRaw"} /\ last'.err = "nil") =>
        LET id == last'.id
        IN  /\ id \in DOMAIN repo'
            /\ Compile(LoadedBug(repo'[id]).ops) = Compile(bugs'[id].ops)
            /\ last'.op = "Commit" =>
                  Compile(LoadedBug(repo'[id]).ops) = Compile(bugs[id].ops)

Merged == merge.chan = NoResult /\ merge'.chan # NoResult

\* The operations of seq whose hash is in the set S, in their order.
Restrict(seq, S) == Unknown(seq, Hashes(seq) \ S)

\* C26: after a three-way merge the operations of the bug are those of the
\* local and of the remote bug together, by hash; an operation only the local
\* bug had comes before every operation only the remote bug had; the local
\* operations keep their order and so do the operations only the remote had.
C26_MergeStep ==
    LET id == merge'.chan.id
        L == Flatten(repo[id])
        R == Flatten(remote[id])
        N == Flatten(repo'[id])
    IN  (/\ Merged
         /\ id \in DOMAIN repo
         /\ ~IsPrefix(remote[id], repo[id])
         /\ \A m \in Absorbed(id) : ~IsPrefix(remote[id], m)
         /\ ~IsPrefix(repo[id], remote[id])
         /\ merge'.chan.err = "nil") =>
            /\ Hashes(N) = Hashes(L) \cup Hashes(R)
            /\ Len(N) = Cardinality(Hashes(N))
            /\ \A i, j \in DOMAIN N :
                  (/\ hashOperation(N[i]) \in Hashes(L) \ Hashes(R)
                   /\ hashOperation(N[j]) \in Hashes(R) \ Hashes(L)) => i < j
            /\ Restrict(N, Hashes(L)) = L
            /\ Restrict(N, Hashes(R) \ Hashes(L)) =
                  Restrict(R, Hashes(R) \ Hashes(L))
            /\ merge'.chan.ops = N

C26_ThreeWayMergeIsOrderedUnion == [][C26_MergeStep]_vars

C26_Witness ==
    /\ merge.chan.status = "updated"
    /\ remote[merge.chan.id] \in Absorbed(merge.chan.id)
    /\ Len(remote[merge.chan.id]) = 3
    /\ Len(repo[merge.chan.id]) = 3
    /\ Len(merge.chan.ops) = 4

\* C27: a remote head that was merged already is merged again without
\* effect: the result is `nothing`, the ops and the ref of the bug stay, and
\* no excerpt is replaced, neither by the merge nor after the result is read.
C27_AgainStep ==
    /\ (Merged /\ <<merge'.chan.id, remote[merge'.chan.id]>> \in merge.done) =>
          /\ merge'.chan.status = "nothing"
          /\ repo' = repo
          /\ excerpts' = excerpts
    /\ (merge.chan.status = "nothing" /\ merge'.chan = NoResult) =>
          /\ merge'.pending = NoResult
          /\ repo' = repo
          /\ opened' => excerpts' = excerpts

C27_MergeIsIdempotent == [][C27_AgainStep]_vars

C27_Witness ==
    /\ merge.chan.status = "nothing"
    /\ <<merge.chan.id, remote[merge.chan.id]>> \in merge.done
    /\ remote[merge.chan.id] \in Absorbed(merge.chan.id)
    /\ ~IsPrefix(remote[merge.chan.id], repo[merge.chan.id])

\* C28: every remote-tracking ref gives one result.  Without a local ref the
\* result is `new` and the local ref is the remote head; with the remote head
\* an ancestor of the local one it is `nothing` and the ref stays; with the
\* local head an ancestor of the remote one it is `updated` and the ref is the
\* remote head; otherwise the bugs are merged three-way.
C28_Step ==
    LET id == merge'.chan.id
        remoteBehind == \/ IsPrefix(remote[id], repo[id])
                        \/ \E m \in Absorbed(id) : IsPrefix(remote[id], m)
        localBehind == IsPrefix(repo[id], remote[id])
    IN  /\ Merged =>
              IF id \notin DOMAIN repo
              THEN /\ merge'.chan.status = "new"
                   /\ repo'[id] = remote[id]
              ELSE IF remoteBehind
              THEN /\ merge'.chan.status = "nothing"
                   /\ repo' = repo
              ELSE IF localBehind
              THEN /\ merge'.chan.status = "updated"
                   /\ repo'[id] = remote[id]
              ELSE \/ /\ merge'.chan.status = "updated"
                      /\ repo'[id] =
                            Append(repo[id],
                                   Unknown(Flatten(remote[id]),
                                           Hashes(Flatten(repo[id]))))
                   \/ /\ merge'.chan.status = "invalid"
                      /\ repo' = repo
        /\ (merge.pc = "merging" /\ merge'.pc = "idle" /\ opened') =>
              /\ Len(merge.emitted) = Cardinality(DOMAIN remote)
              /\ SeqToSet(merge.emitted) = DOMAIN remote

C28_StatusFollowsAncestry == [][C28_Step]_vars

C28_Witness ==
    /\ merge.chan.status = "updated"
    /\ Absorbed(merge.chan.id) = {}
    /\ repo[merge.chan.id] = remote[merge.chan.id]
    /\ Len(remote[merge.chan.id]) = 3
    /\ Cardinality(DOMAIN remote) = 1

\* C29: the task of MergeAll never assigns to the excerpt map of a cache
\* whose owner can read it.
C29_TaskLeavesExcerptsAlone == ~(opened /\ merge.writing)

(***************************************************************************)
(* SpecJson: one operation is written with json.Marshal and read back with *)
(* json.Unmarshal.  The author of an operation is an identity.Interface:   *)
(* a Bare, whose data is written into the operation, or an Identity, of    *)
(* which only the id is written.                                           *)
(***************************************************************************)
\* identity.NewBare(name, email)
NewBare(name, email) ==
    [kind |-> "bare", id |-> "", name |-> name, email |-> email,
     login |-> "", versions |-> <<>>]

\* An Identity with an id and versions (what Read gives), with an id only
\* (what decoding gives before Load), or with versions only (what NewIdentity
\* gives before Commit).
VersionedIdentity(id, versions) ==
    [kind |-> "identity", id |-> id, name |-> "", email |-> "",
     login |-> "", versions |-> versions]

JsonVersion(name) == [name |-> name, email |-> "e1"]

JsonAuthors ==
    {NewBare("n1", "e1"), NewBare("n1", ""),
     VersionedIdentity("i1", <<JsonVersion("n1")>>),
     VersionedIdentity("i1", <<JsonVersion("n1"), JsonVersion("n2")>>),
     VersionedIdentity("i1", <<>>),
     VersionedIdentity("", <<JsonVersion("n1")>>)}

JsonMetas == {NoMeta, {<<"k", "v">>}}

JsonOps ==
    UNION {{SetMetadata(op, m) : m \in JsonMetas,
            op \in {NewCreateOp(a, 1, <<"a">>, <<"b">>, NoFiles),
                    NewCreateOp(a, 1, <<"a">>, <<"b">>, <<"f1">>),
                    NewAddCommentOp(a, 1, <<"b">>, NoFiles),
                    NewEditCommentOp(a, 1, UnknownHash, <<"b">>, <<"f1">>),
                    NewSetTitleOp(a, 1, <<"a">>),
                    NewSetStatusOp(a, 1, "closed"),
                    NewLabelChangeOp(a, 1, {"l1"}, {"l2"})}} :
           a \in JsonAuthors}

\* Identity.MarshalJSON writes the id and nothing else; a Bare writes its
\* fields.
IdentityMarshalJSON(i) == [id |-> i.id]
BareMarshalJSON(b) == [name |-> b.name, email |-> b.email, login |-> b.login]
MarshalAuthor(a) ==
    IF a.kind = "identity" THEN IdentityMarshalJSON(a) ELSE BareMarshalJSON(a)

\* Identity.UnmarshalJSON reads the id and nothing else: the Identity it
\* fills has no version.
IdentityUnmarshalJSON(data) ==
    VersionedIdentity(IF "id" \in DOMAIN data THEN data.id ELSE "", <<>>)

BareUnmarshalJSON(data) ==
    LET get(f) == IF f \in DOMAIN data THEN data[f] ELSE ""
    IN  [NewBare(get("name"), get("email")) EXCEPT !.login = get("login")]

\* identity.UnmarshalJSON(raw): an Identity when the document has a
\* non-empty id, else a Bare when it has a name or a login, else an error.
UnmarshalJSON(raw) ==
    LET i == IdentityUnmarshalJSON(raw)
        b == BareUnmarshalJSON(raw)
    IN  IF i.id # "" THEN [err |-> "nil", author |-> i]
        ELSE IF b.name # "" \/ b.login # "" THEN [err |-> "nil", author |-> b]
        ELSE [err |-> "unknown identity type", author |-> b]

\* json.Marshal of an operation: its document, the author written by the
\* author's own MarshalJSON.
MarshalOp(op) == [EncodeOp(op) EXCEPT !.author = MarshalAuthor(op.author)]

\* json.Unmarshal into an operation: the author is read by
\* identity.UnmarshalJSON, whose error is the error of the whole.
UnmarshalOp(doc) ==
    LET a == UnmarshalJSON(doc.author)
    IN  [called |-> TRUE, stage |-> "decoded", data |-> doc, err |-> a.err,
         op |-> DecodeOp([doc EXCEPT !.author = a.author])]

JsonInit ==
    /\ jIn \in JsonOps
    /\ jOut = NotCalled
    /\ SnapIdle /\ CreateIdle /\ CacheIdle /\ LockIdle /\ IdIdle /\ MergeIdle
    /\ ReplicaIdle

jsonFrame ==
    UNCHANGED <<jIn, snapVars, createVars, cacheVars, lockVars, idVars,
                mergeVars, replicaVars>>

JsonMarshal ==
    /\ jOut = NotCalled
    /\ jOut' = [called |-> TRUE, stage |-> "encoded", data |-> MarshalOp(jIn),
                err |-> "nil", op |-> jIn]
    /\ jsonFrame

JsonUnmarshal ==
    /\ jOut # NotCalled
    /\ jOut.stage = "encoded"
    /\ jOut' = UnmarshalOp(jOut.data)
    /\ jsonFrame

JsonNext == JsonMarshal \/ JsonUnmarshal

SpecJson == JsonInit /\ [][JsonNext]_vars

(***************************************************************************)
(* Properties of the JSON form of an operation (SpecJson)                  *)
(***************************************************************************)
\* Authors: a Bare with a name, and an Identity that was committed (it has
\* an id) and holds its versions.
Decoded == jOut # NotCalled /\ jOut.stage = "decoded"
BareAuthor(a) == a.kind = "bare" /\ a.name # ""
CommittedIdentity(a) == a.kind = "identity" /\ a.id # "" /\ a.versions # <<>>

\* C31: an operation decoded from its JSON form equals the operation that
\* was encoded, whether its author is a Bare or a committed Identity with
\* its versions.
C31_JsonRoundTrip ==
    (Decoded /\ (BareAuthor(jIn.author) \/ CommittedIdentity(jIn.author))) =>
        (jOut.err = "nil" /\ jOut.op = jIn)

\* The part that holds: operations whose author is a Bare, and operations
\* whose Identity carries its id only, come back equal.
C31_BareRoundTrip ==
    (Decoded /\ (BareAuthor(jIn.author)
                 \/ (jIn.author.kind = "identity" /\ jIn.author.id # ""
                     /\ jIn.author.versions = <<>>))) =>
        (jOut.err = "nil" /\ jOut.op = jIn)

(***************************************************************************)
(* Properties of the snapshot compiler, continued (SpecSnapshot)           *)
(***************************************************************************)
\* The edit applied by this step has the hash of a timeline item that holds
\* no comment (set-title, set-status, label-change) as its target.
EditsPlainItem ==
    /\ Applies("EDIT_COMMENT")
    /\ LET i == TargetIndex(snapshot.timeline, ops'[Len(ops')].target)
       IN  /\ i # 0
           /\ snapshot.timeline[i].type \notin
                 {"CreateTimelineItem", "AddCommentTimelineItem"}

\* C32: an edit_comment whose target is the hash of a timeline item that is
\* neither a create item nor a comment item changes no comment and no edit
\* history, and does not fail.
C32_EditStep ==
    EditsPlainItem =>
        /\ ~panicked'
        /\ snapshot'.comments = snapshot.comments
        /\ snapshot'.timeline = snapshot.timeline

C32_EditOfPlainItemIsNoOp == [][C32_EditStep]_vars

\* C38: a create operation that carries files gives the first comment of the
\* snapshot these files, as an edit_comment gives the comment it edits the
\* files of the edit.
C38_CreateKeepsFiles ==
    (Len(ops) = 1 /\ ops[1].type = "CREATE" /\ ops[1].files # NoFiles) =>
        /\ ~panicked
        /\ Len(snapshot.comments) = 1
        /\ snapshot.comments[1].files = ops[1].files

(***************************************************************************)
(* Properties of MergeAll and the loaded bugs (SpecMerge, SpecMergeFair)   *)
(***************************************************************************)
\* The committed operations of a BugCache.
CommittedOps(b) == SubSeq(b.ops, 1, b.committed)

\* C33: the bug ResolveBug returns has the operations of its ref, also when
\* the bug was loaded before a merge moved the ref.
C33_ResolveStep ==
    (last'.op = "ResolveBug" /\ last'.err = "nil") =>
        CommittedOps(bugs'[last'.id]) = Flatten(repo'[last'.id])

C33_ResolveBugAfterMerge == [][C33_ResolveStep]_vars

\* C34: when the reader of the stream gets a result `new` or `updated`
\* without error, the excerpt of the bug is already the excerpt of the
\* merged bug.
C34_ReceiveStep ==
    (/\ last'.op = "MergeResult"
     /\ last'.err = "nil"
     /\ last'.arg \in {"new", "updated"}) =>
        /\ last'.id \in DOMAIN excerpts'
        /\ excerpts'[last'.id] =
              NewBugExcerpt(last'.id, merge.chan.ops, Compile(merge.chan.ops))

C34_ExcerptReadyWhenReceived == [][C34_ReceiveStep]_vars

\* C35: the stream is closed in the end, and when it is closed the process
\* is alive, the cache file holds the excerpt map in memory, and that map has
\* the excerpt of every bug as its ref is now: refreshed for the bugs that
\* were new or updated, unchanged for the others.
C35_CloseStep ==
    (merge.pc = "merging" /\ merge'.pc = "idle") =>
        /\ opened'
        /\ cacheFile'.state = "ok"
        /\ cacheFile'.excerpts = excerpts'
        /\ excerpts' = buildCache(repo')

C35_StreamClosesWithFileWritten ==
    /\ [][C35_CloseStep]_vars
    /\ (merge.pc = "merging") ~> (merge.pc = "idle")

\* The part that holds: the stream is closed in the end or the process is
\* gone, and a process that outlives the closing has written the file.
C35_WrittenUnlessDead ==
    /\ [][(merge.pc = "merging" /\ merge'.pc = "idle" /\ opened') =>
            /\ cacheFile'.state = "ok"
            /\ cacheFile'.excerpts = excerpts'
            /\ excerpts' = buildCache(repo')]_vars
    /\ (merge.pc = "merging") ~> (merge.pc = "idle")

(***************************************************************************)
(* Properties of NewBugRaw and CommitAsNeeded (Spec)                       *)
(***************************************************************************)
\* C36: a NewBugRaw that returns an error leaves the refs, the loaded bugs
\* and the excerpt map as they were; one that succeeds adds exactly one
\* excerpt, under the id of the new bug.
C36_NewBugStep ==
    (last'.op = "NewBugRaw") =>
        IF last'.err # "nil"
        THEN /\ repo' = repo
             /\ bugs' = bugs
             /\ excerpts' = excerpts
        ELSE /\ last'.id \notin DOMAIN excerpts
             /\ DOMAIN excerpts' = DOMAIN excerpts \cup {last'.id}
             /\ \A id \in DOMAIN excerpts : excerpts'[id] = excerpts[id]
             /\ last'.id \in DOMAIN repo'

C36_NewBugAllOrNothing == [][C36_NewBugStep]_vars

\* C39: CommitAsNeeded on a bug without a pending operation succeeds and
\* writes nothing; with pending operations it commits them all as one pack,
\* and after a successful commit no operation is pending.
C39_CommitAsNeededStep ==
    (last'.op = "CommitAsNeeded") =>
        LET id == last'.id
            b == bugs[id]
            staged == SubSeq(b.ops, b.committed + 1, Len(b.ops))
        IN  IF staged = <<>>
            THEN last'.err = "nil" /\ repo' = repo /\ bugs' = bugs
            ELSE IF last'.err = "nil"
            THEN /\ repo'[id] = Append(repo[id], StoredPack(staged))
                 /\ \A other \in DOMAIN repo : other # id =>
                        repo'[other] = repo[other]
                 /\ ~HasPendingOp(bugs'[id])
                 /\ bugs'[id].ops = b.ops
            ELSE repo' = repo /\ bugs' = bugs

C39_CommitAsNeeded == [][C39_CommitAsNeededStep]_vars

\* C39 witness: CommitAsNeeded has committed two pending operations as one
\* pack on top of the create.
C39_Witness ==
    /\ last.op = "CommitAsNeeded"
    /\ last.err = "nil"
    /\ Len(repo[last.id]) = 2
    /\ Len(repo[last.id][2]) = 2
    /\ ~HasPendingOp(bugs[last.id])

\* ... and CommitAsNeeded has returned without error for a bug that had no
\* pending operation.
C39_WitnessNothingPending ==
    /\ last.op = "CommitAsNeeded"
    /\ last.err = "nil"
    /\ Len(repo[last.id]) = 1

(***************************************************************************)
(* SpecRaw: a RepoCache opened over one committed bug that is loaded; the  *)
(* calls are the *Raw mutators of its BugCache, with and without metadata, *)
(* and Commit.                                                             *)
(***************************************************************************)
RawCreate == NewCreateOp("A", 1, <<"a">>, <<"a">>, NoFiles)
RawId == CommitHash(<<RawCreate>>)
RawMetas == {NoMeta, {<<"origin", "x">>}}

RawInit ==
    /\ repo = MapPut(EmptyMap, RawId, <<StoredPack(<<RawCreate>>)>>)
    /\ excerpts = buildCache(repo)
    /\ cacheFile = [state |-> "ok", version |-> formatVersion,
                    excerpts |-> buildCache(repo)]
    /\ lockFile = "self"
    /\ opened = TRUE
    /\ bugs = MapPut(EmptyMap, RawId, LoadedBug(repo[RawId]))
    /\ last = NoCall
    /\ SnapIdle /\ CreateIdle /\ LockIdle /\ IdIdle /\ MergeIdle /\ JsonIdle
    /\ ReplicaIdle

\* The hashes of the operations of the bug as they are in its ref.
CommittedHashes(id) ==
    {hashOperation(Flatten(repo[id])[i]) : i \in 1..Len(Flatten(repo[id]))}

RawAddComment ==
    \E id \in DOMAIN bugs, message \in {<<"b">>}, metadata \in RawMetas :
        LET op == NewAddCommentOp("A", 2, message, NoFiles)
        IN  Mutator("AddCommentRaw", id, [message |-> message], op,
                    AddCommentValidate(op), metadata)

\* The target is the hash of an operation as the ref has it.
RawEditComment ==
    \E id \in DOMAIN bugs, metadata \in RawMetas :
      \E target \in CommittedHashes(id) \cup {UnknownHash} :
        LET message == <<"a", "b">>
            op == NewEditCommentOp("A", 3, target, message, NoFiles)
        IN  Mutator("EditCommentRaw", id,
                    [target |-> target, message |-> message], op,
                    EditCommentValidate(op), metadata)

RawSetTitle ==
    \E id \in DOMAIN bugs, metadata \in RawMetas :
        LET op == NewSetTitleOp("A", 2, <<"b">>)
        IN  Mutator("SetTitleRaw", id, [title |-> <<"b">>], op,
                    SetTitleValidate(op), metadata)

RawClose ==
    \E id \in DOMAIN bugs, metadata \in RawMetas :
        LET op == NewSetStatusOp("A", 2, "closed")
        IN  Mutator("CloseRaw", id, <<>>, op, SetStatusValidate(op), metadata)

RawNext ==
    \/ RawAddComment
    \/ RawEditComment
    \/ RawSetTitle
    \/ RawClose
    \/ Commit

SpecRaw == RawInit /\ [][RawNext]_vars

(***************************************************************************)
(* Properties of the hashes of a cached snapshot (SpecRaw)                 *)
(***************************************************************************)
RawCalls == {"AddCommentRaw", "EditCommentRaw", "SetTitleRaw", "CloseRaw"}

\* The timeline of the cached snapshot of b names every operation by the
\* hash the operation has in a committed pack.
TimelineHasCommittedHashes(b) ==
    \A k \in 1..Len(b.snap.timeline) :
        LET n == NthItemOp(b.ops, k, 1)
        IN  /\ n # 0
            /\ b.snap.timeline[k].hash = hashOperation(StoredPack(b.ops)[n])

\* C37: after a *Raw mutator has added an operation, with metadata or not,
\* every item of the cached snapshot's timeline carries the hash its
\* operation has once committed; and an edit_comment whose target is the
\* hash of a committed comment adds a revision to the history of that
\* comment's item in the cached snapshot.
C37_RawStep ==
    (last'.op \in RawCalls /\ last'.err = "nil" /\ opened') =>
        LET id == last'.id
            b == bugs'[id]
            op == b.ops[Len(b.ops)]
        IN  /\ Len(b.ops) = Len(bugs[id].ops) + 1
            /\ TimelineHasCommittedHashes(b)
            /\ (op.type = "EDIT_COMMENT" /\ op.target \in CommittedHashes(id)
                /\ \E i \in 1..Len(Flatten(repo[id])) :
                      /\ Flatten(repo[id])[i].type \in {"CREATE", "ADD_COMMENT"}
                      /\ hashOperation(Flatten(repo[id])[i]) = op.target) =>
                  \E k \in 1..Len(b.snap.timeline) :
                      /\ b.snap.timeline[k].hash = op.target
                      /\ Len(b.snap.timeline[k].history) >= 2

C37_SnapshotHasCommittedHashes == [][C37_RawStep]_vars

\* C37 witness: a comment added with metadata was committed, and an edit
\* whose target is its committed hash has been applied to the cached
\* snapshot.
C37_Witness ==
    /\ opened
    /\ last.op = "EditCommentRaw"
    /\ last.err = "nil"
    /\ Len(repo[RawId]) = 2
    /\ repo[RawId][2][1].type = "ADD_COMMENT"
    /\ repo[RawId][2][1].metadata # NoMeta
    /\ last.arg.target = hashOperation(repo[RawId][2][1])
    /\ Len(bugs[RawId].snap.timeline[2].history) = 2

(***************************************************************************)
(* SpecReplicas: two replicas hold one bug.  From a common history each    *)
(* has gone on by itself; each then merges the head the other one had,     *)
(* with the three-way merge of bug.Merge.                                  *)
(***************************************************************************)
\* The histories the replicas share.
CommonHistories ==
    {<<NewCreateOp("A", 1, <<"a">>, <<"a">>, NoFiles)>>,
     <<NewCreateOp("A", 1, <<"a">>, <<"a">>, NoFiles),
       NewAddCommentOp("B", 2, <<"b">>, NoFiles)>>}

\* What a replica has added by itself: one or two operations of its user.
OwnHistories(author, title) ==
    {<<NewSetTitleOp(author, 3, title)>>,
     <<NewAddCommentOp(author, 3, title, NoFiles)>>,
     <<NewSetStatusOp(author, 3, "closed")>>,
     <<NewAddCommentOp(author, 3, title, NoFiles),
       NewSetTitleOp(author, 4, title)>>}

\* A replica: the head the other one fetches, the operations of its bug
\* now, and whether it has merged.
Replica(opSeq) == [head |-> opSeq, ops |-> opSeq, merged |-> FALSE]

ReplicaInit ==
    /\ \E common \in CommonHistories,
          ownA \in OwnHistories("A", <<"a">>),
          ownB \in OwnHistories("B", <<"b">>) :
            replicas = [a |-> Replica(common \o ownA),
                        b |-> Replica(common \o ownB)]
    /\ SnapIdle /\ CreateIdle /\ CacheIdle /\ LockIdle /\ IdIdle /\ MergeIdle
    /\ JsonIdle

replicaFrame ==
    UNCHANGED <<snapVars, createVars, cacheVars, lockVars, idVars, mergeVars,
                jsonVars>>

\* The replica `self` merges the head of the replica `other`.
ReplicaMerge(self, other) ==
    /\ ~replicas[self].merged
    /\ LET m == ThreeWayMerge(replicas[self].ops, replicas[other].head)
       IN  /\ m.err = "nil"
           /\ replicas' = [replicas EXCEPT ![self].ops = m.ops,
                                           ![self].merged = TRUE]
    /\ replicaFrame

MergeAtA == ReplicaMerge("a", "b")
MergeAtB == ReplicaMerge("b", "a")

ReplicaNext == MergeAtA \/ MergeAtB

SpecReplicas == ReplicaInit /\ [][ReplicaNext]_vars

(***************************************************************************)
(* Properties of two replicas (SpecReplicas)                               *)
(***************************************************************************)
\* C40: once both replicas have merged the head of the other, they hold the
\* same sequence of operations and so the same snapshot.
C40_ReplicasConverge ==
    (replicas.a.merged /\ replicas.b.merged) =>
        /\ replicas.a.ops = replicas.b.ops
        /\ Compile(replicas.a.ops) = Compile(replicas.b.ops)

\* The part that holds: both replicas hold the same set of operations.
C40_SameOperations ==
    (replicas.a.merged /\ replicas.b.merged) =>
        Hashes(replicas.a.ops) = Hashes(replicas.b.ops)

====
